---- MODULE Spec2Model ----
(***************************************************************************)
(* A model of openat_secure: path resolution confined to a base directory. *)
(* The manual walk of open_file_secure (src/src/lib.rs) is modelled one    *)
(* system call per action, over a small file system whose lookups follow   *)
(* the kernel's rules; the openat2 fast path, the wrappers and the         *)
(* split-path preprocessor are modelled around it.                         *)
(*                                                                         *)
(* A path is a sequence of one-character strings, so that parsing,         *)
(* prefixes and trailing slashes are computed as the code computes them.   *)
(***************************************************************************)
EXTENDS Integers, Sequences, FiniteSets, TLC

(***************************************************************************)
(* Paths (std::path as the crate uses it)                                  *)
(***************************************************************************)

RootTok   == <<"/">>
ParentTok == <<".", ".">>
CurTok    == <<".">>

\* The maximal runs of non-separator characters of p, left to right.
RECURSIVE SplitSegs(_, _, _)
SplitSegs(p, i, cur) ==
    IF i > Len(p)
    THEN (IF cur = <<>> THEN <<>> ELSE <<cur>>)
    ELSE IF p[i] = "/"
         THEN (IF cur = <<>> THEN <<>> ELSE <<cur>>) \o SplitSegs(p, i + 1, <<>>)
         ELSE SplitSegs(p, i + 1, Append(cur, p[i]))

Segments(p) == SplitSegs(p, 1, <<>>)

HasRoot(p) == Len(p) > 0 /\ p[1] = "/"

\* Path::components(): RootDir for a leading "/", "." kept only as the first
\* component of a relative path, ".." as ParentDir, anything else Normal;
\* repeated and trailing separators vanish.
Components(p) ==
    LET segs == Segments(p)
        comp(i) ==
            IF segs[i] = ParentTok THEN [kind |-> "ParentDir", name |-> segs[i]]
            ELSE IF segs[i] = CurTok THEN [kind |-> "CurDir", name |-> segs[i]]
            ELSE [kind |-> "Normal", name |-> segs[i]]
        all  == [i \in 1..Len(segs) |-> comp(i)]
        keep(c, i) == c.kind # "CurDir" \/ (i = 1 /\ ~HasRoot(p))
        idx  == {i \in 1..Len(segs) : keep(all[i], i)}
        RECURSIVE Pick(_)
        Pick(i) == IF i > Len(segs) THEN <<>>
                   ELSE (IF i \in idx THEN <<all[i]>> ELSE <<>>) \o Pick(i + 1)
    IN  (IF HasRoot(p) THEN <<[kind |-> "RootDir", name |-> RootTok]>> ELSE <<>>)
        \o Pick(1)

\* A faulty mapping that keeps "." as a name.
map_component_cstringKeepsDot(c) ==
    CASE c.kind = "RootDir"   -> <<"/">>
      [] c.kind = "ParentDir" -> <<".", ".">>
      [] OTHER                -> c.name

\* map_component_cstring: the token pushed on the queue, <<>> for a dropped ".".
map_component_cstring(c) ==
    CASE c.kind = "CurDir"    -> <<>>
      [] c.kind = "RootDir"   -> RootTok
      [] c.kind = "ParentDir" -> ParentTok
      [] OTHER                -> c.name

\* The queue the walk builds from a path: the mapped components, in order.
RECURSIVE MapComponents(_)
MapComponents(cs) ==
    IF cs = <<>> THEN <<>>
    ELSE LET t == map_component_cstring(Head(cs))
         IN  (IF t = <<>> THEN <<>> ELSE <<t>>) \o MapComponents(Tail(cs))

PathTokens(p) == MapComponents(Components(p))

\* path.components().any(|c| c == Component::ParentDir)
HasParentComponent(p) ==
    \E i \in 1..Len(Components(p)) : Components(p)[i].kind = "ParentDir"

\* path.ends_with(".."): the last component is ParentDir.
EndsWithParent(p) ==
    LET cs == Components(p)
    IN  cs # <<>> /\ cs[Len(cs)].kind = "ParentDir"

\* target.as_os_str().as_bytes().ends_with(b"/")
EndsWithSlash(p) == Len(p) > 0 /\ p[Len(p)] = "/"

(***************************************************************************)
(* The file system.  Objects are named by strings; NoIno stands for "no    *)
(* object" (an absent entry, Option::None for a handle).  A handle (Dir,   *)
(* File, RawFd) is modelled by the object it refers to: renaming an object *)
(* does not change what an open handle refers to.                          *)
(***************************************************************************)

NoIno == "none"

N(c) == <<c>>

Dirs     == {"root", "base", "a", "b", "outa", "m", "newdir"}
Files    == {"c", "outc", "new", "adv", "f"}
Symlinks == {"l", "g", "k", "newlink"}
Inodes   == Dirs \cup Files \cup Symlinks

IType(i) == IF i \in Dirs THEN "dir" ELSE IF i \in Symlinks THEN "symlink" ELSE "file"

\* st_dev: m is a mount point of another file system inside the base, and f
\* is a regular file of another file system (a file mounted over a file).
IDev(i) == IF i \in {"m", "f"} THEN "dev2" ELSE "dev1"

\* The fixture: /base is the base directory; /c and /a are objects outside
\* it with the names of objects inside it.
BaseDirents ==
    { <<"root", N("x"), "base">>, <<"root", N("c"), "outc">>, <<"root", N("a"), "outa">>,
      <<"base", N("a"), "a">>, <<"base", N("c"), "c">>, <<"base", N("m"), "m">>,
      <<"base", N("l"), "l">>, <<"base", N("k"), "k">>,
      <<"a", N("b"), "b">>, <<"b", N("g"), "g">> }

Lookup(d, dir, name) ==
    IF \E e \in d : e[1] = dir /\ e[2] = name
    THEN (CHOOSE e \in d : e[1] = dir /\ e[2] = name)[3]
    ELSE NoIno

\* The directory that holds dir ("root" is its own parent).
KParent(d, dir) ==
    IF \E e \in d : e[3] = dir
    THEN (CHOOSE e \in d : e[3] = dir)[1]
    ELSE dir

\* The objects at or beneath dir.
RECURSIVE BeneathFrom(_, _)
BeneathFrom(d, seen) ==
    LET more == {e[3] : e \in {x \in d : x[1] \in seen}} \ seen
    IN  IF more = {} THEN seen ELSE BeneathFrom(d, seen \cup more)

Beneath(d, dir) == BeneathFrom(d, {dir})

(***************************************************************************)
(* The kernel: openat, openat2, readlinkat                                 *)
(***************************************************************************)

Ok(fd)      == [kind |-> "ok", fd |-> fd, errno |-> "", creat |-> <<>>]
Err(e)      == [kind |-> "err", fd |-> NoIno, errno |-> e, creat |-> <<>>]
Created(dir, name) == [kind |-> "ok", fd |-> "new", errno |-> "", creat |-> <<dir, name>>]

\* MAXSYMLINKS of the kernel's own resolution.
KMaxSymlinks == 40

\* The kernel's view of a path: its segments, "." and ".." included, after a
\* root token when it is absolute.
KTokens(p) == (IF HasRoot(p) THEN <<RootTok>> ELSE <<>>) \o Segments(p)

\* A trailing slash after a name asks for a directory.
KMustDir(p) == EndsWithSlash(p) /\ Segments(p) # <<>>

\* The final open of an object that exists (and is not a symlink to follow).
KOpenExisting(e, of, mustDir) ==
    LET creat == "O_CREAT" \in of /\ "O_PATH" \notin of
        write == ("O_WRONLY" \in of \/ "O_RDWR" \in of) /\ "O_PATH" \notin of
    IN  CASE IType(e) = "dir" ->
                 IF creat /\ "O_EXCL" \in of THEN Err("EEXIST")
                 ELSE IF creat \/ write THEN Err("EISDIR")
                 ELSE Ok(e)
          [] IType(e) = "file" ->
                 IF creat /\ mustDir THEN Err("EISDIR")
                 ELSE IF creat /\ "O_EXCL" \in of THEN Err("EEXIST")
                 ELSE IF mustDir \/ "O_DIRECTORY" \in of THEN Err("ENOTDIR")
                 ELSE Ok(e)
          [] OTHER -> Ok(e)

\* Path resolution, one component per step.  A walk is [cur, toks, mustDir,
\* n, res]: the current directory, the pending tokens, whether the last name
\* must be a directory, the symlinks followed, and the answer once there is
\* one.  root is the directory RESOLVE_BENEATH and RESOLVE_IN_ROOT confine the
\* walk to; rf are the resolve flags, of the open flags.
KDone(s, r) == [s EXCEPT !.res = r]
KGo(s, cur, toks, mustDir, n) == [cur |-> cur, toks |-> toks, mustDir |-> mustDir,
                                  n |-> n, res |-> s.res]

KStep(d, lt, root, rf, of, s) ==
    LET t     == Head(s.toks)
        rest  == Tail(s.toks)
        last  == rest = <<>>
        e     == Lookup(d, s.cur, t)
        creat == "O_CREAT" \in of /\ "O_PATH" \notin of
        atRoot == s.cur = root
        isName == t # RootTok /\ t # CurTok /\ t # ParentTok
        isLink == isName /\ e # NoIno /\ IType(e) = "symlink"
        noFollow == last /\ ((creat /\ "O_EXCL" \in of) \/ ("O_NOFOLLOW" \in of /\ ~s.mustDir))
        \* a creating open of a last name that is followed by a separator is
        \* refused before the name is looked up
        slashCreat == isName /\ last /\ creat /\ s.mustDir
    IN  CASE s.toks = <<>> -> KDone(s, KOpenExisting(s.cur, of, s.mustDir))
          [] s.toks # <<>> /\ slashCreat -> KDone(s, Err("EISDIR"))
          [] s.toks # <<>> /\ t = RootTok ->
                 IF "BENEATH" \in rf THEN KDone(s, Err("EXDEV"))
                 ELSE KGo(s, IF "IN_ROOT" \in rf THEN root ELSE "root", rest, s.mustDir, s.n)
          [] s.toks # <<>> /\ t = CurTok -> KGo(s, s.cur, rest, s.mustDir, s.n)
          [] s.toks # <<>> /\ t = ParentTok ->
                 IF atRoot /\ "BENEATH" \in rf THEN KDone(s, Err("EXDEV"))
                 ELSE IF atRoot /\ "IN_ROOT" \in rf THEN KGo(s, s.cur, rest, s.mustDir, s.n)
                 ELSE IF "NO_XDEV" \in rf /\ IDev(KParent(d, s.cur)) # IDev(s.cur)
                      THEN KDone(s, Err("EXDEV"))
                 ELSE KGo(s, KParent(d, s.cur), rest, s.mustDir, s.n)
          [] s.toks # <<>> /\ isName /\ ~slashCreat /\ e = NoIno ->
                 IF last /\ creat
                 THEN KDone(s, Created(s.cur, t))
                 ELSE KDone(s, Err("ENOENT"))
          [] s.toks # <<>> /\ isLink /\ ~slashCreat /\ noFollow ->
                 IF creat /\ "O_EXCL" \in of THEN KDone(s, Err("EEXIST"))
                 ELSE IF "O_PATH" \notin of THEN KDone(s, Err("ELOOP"))
                 ELSE IF "O_DIRECTORY" \in of THEN KDone(s, Err("ENOTDIR"))
                 ELSE KDone(s, Ok(e))
          [] s.toks # <<>> /\ isLink /\ ~slashCreat /\ ~noFollow ->
                 IF "NO_SYMLINKS" \in rf \/ s.n >= KMaxSymlinks THEN KDone(s, Err("ELOOP"))
                 ELSE IF lt[e] = <<>> THEN KDone(s, Err("ENOENT"))
                 ELSE KGo(s, s.cur, KTokens(lt[e]) \o rest,
                          IF last THEN s.mustDir \/ EndsWithSlash(lt[e]) ELSE s.mustDir,
                          s.n + 1)
          [] OTHER ->
                 IF "NO_XDEV" \in rf /\ IDev(e) # IDev(s.cur) THEN KDone(s, Err("EXDEV"))
                 ELSE IF last THEN KDone(s, KOpenExisting(e, of, s.mustDir))
                 ELSE IF IType(e) = "dir" THEN KGo(s, e, rest, s.mustDir, s.n)
                 ELSE KDone(s, Err("ENOTDIR"))

RECURSIVE KRun(_, _, _, _, _, _)
KRun(d, lt, root, rf, of, s) ==
    IF s.res.kind # "none" THEN s.res
    ELSE KRun(d, lt, root, rf, of, KStep(d, lt, root, rf, of, s))

KResolve(d, lt, cur, root, p, rf, of) ==
    KRun(d, lt, root, rf, of,
         [cur |-> cur, toks |-> KTokens(p), mustDir |-> KMustDir(p), n |-> 0,
          res |-> [kind |-> "none", fd |-> NoIno, errno |-> "", creat |-> <<>>]])

\* openat(dirfd, name, flags, mode)
KOpenat(d, lt, dir, name, of) ==
    IF name = <<>> THEN Err("ENOENT")
    ELSE KResolve(d, lt, dir, "root", name, {}, of)

\* What openat may answer: a kernel that refuses O_CREAT together with
\* O_DIRECTORY (Linux 6.4 and later) answers EINVAL before it looks at the
\* name, an earlier one resolves the name.
KOpenatAnswers(d, lt, dir, name, of) ==
    {KOpenat(d, lt, dir, name, of)}
    \cup (IF {"O_CREAT", "O_DIRECTORY"} \subseteq of /\ "O_PATH" \notin of
          THEN {Err("EINVAL")} ELSE {})

\* openat2(dirfd, path, how): resolution confined to dirfd by how.resolve.
KOpenat2(d, lt, dir, p, rf, of) ==
    IF p = <<>> THEN Err("ENOENT")
    ELSE KResolve(d, lt, dir, dir, p, rf, of)

\* readlinkat(dirfd, name): the target of a symlink, EINVAL for anything else.
KReadlink(d, lt, dir, name) ==
    LET e == Lookup(d, dir, name)
    IN  IF e = NoIno THEN [kind |-> "err", errno |-> "ENOENT", target |-> <<>>]
        ELSE IF IType(e) = "symlink" THEN [kind |-> "ok", errno |-> "", target |-> lt[e]]
        ELSE [kind |-> "err", errno |-> "EINVAL", target |-> <<>>]

\* fstatat(dirfd, name, AT_SYMLINK_NOFOLLOW): the object the name denotes.
KStat(d, dir, name) ==
    IF Lookup(d, dir, name) = NoIno THEN Err("ENOENT") ELSE Ok(Lookup(d, dir, name))

\* The answer of a system call that may change the file system: the result,
\* the entries and the symlink targets after it.
KAnswer(r, d, lt) == [res |-> r, d |-> d, lt |-> lt]

\* A mount point: the object is on another device than the directory that
\* holds its name.
KMountPoint(dir, e) == IDev(e) # IDev(dir)

\* mkdirat(dirfd, name, mode)
KMkdirat(d, lt, dir, name) ==
    IF Lookup(d, dir, name) # NoIno THEN KAnswer(Err("EEXIST"), d, lt)
    ELSE KAnswer(Ok("newdir"), d \cup {<<dir, name, "newdir">>}, lt)

\* unlinkat(dirfd, name, AT_REMOVEDIR)
KRmdir(d, lt, dir, name) ==
    LET e == Lookup(d, dir, name)
    IN  IF e = NoIno THEN KAnswer(Err("ENOENT"), d, lt)
        ELSE IF IType(e) # "dir" THEN KAnswer(Err("ENOTDIR"), d, lt)
        ELSE IF KMountPoint(dir, e) THEN KAnswer(Err("EBUSY"), d, lt)
        ELSE IF \E x \in d : x[1] = e THEN KAnswer(Err("ENOTEMPTY"), d, lt)
        ELSE KAnswer(Ok(e), d \ {<<dir, name, e>>}, lt)

\* unlinkat(dirfd, name, 0)
KUnlink(d, lt, dir, name) ==
    LET e == Lookup(d, dir, name)
    IN  IF e = NoIno THEN KAnswer(Err("ENOENT"), d, lt)
        ELSE IF IType(e) = "dir" THEN KAnswer(Err("EISDIR"), d, lt)
        ELSE KAnswer(Ok(e), d \ {<<dir, name, e>>}, lt)

\* symlinkat(value, dirfd, name)
KSymlinkat(d, lt, dir, name, value) ==
    IF Lookup(d, dir, name) # NoIno THEN KAnswer(Err("EEXIST"), d, lt)
    ELSE KAnswer(Ok("newlink"), d \cup {<<dir, name, "newlink">>},
                 [lt EXCEPT !["newlink"] = value])

\* renameat(olddirfd, oldname, newdirfd, newname)
KRenameat(d, lt, od, on, nd, nn) ==
    LET e == Lookup(d, od, on)
        t == Lookup(d, nd, nn)
        moved == (d \ {<<od, on, e>>, <<nd, nn, t>>}) \cup {<<nd, nn, e>>}
    IN  IF e = NoIno THEN KAnswer(Err("ENOENT"), d, lt)
        ELSE IF IDev(od) # IDev(nd) THEN KAnswer(Err("EXDEV"), d, lt)
        ELSE IF KMountPoint(od, e) THEN KAnswer(Err("EBUSY"), d, lt)
        ELSE IF t = e THEN KAnswer(Ok(e), d, lt)
        ELSE IF IType(e) = "dir" /\ nd \in BeneathFrom(d, {e})
             THEN KAnswer(Err("EINVAL"), d, lt)
        ELSE IF t = NoIno THEN KAnswer(Ok(e), moved, lt)
        ELSE IF IType(e) = "dir" /\ IType(t) # "dir" THEN KAnswer(Err("ENOTDIR"), d, lt)
        ELSE IF IType(e) # "dir" /\ IType(t) = "dir" THEN KAnswer(Err("EISDIR"), d, lt)
        ELSE IF IType(t) = "dir" /\ KMountPoint(nd, t) THEN KAnswer(Err("EBUSY"), d, lt)
        ELSE IF IType(t) = "dir" /\ (\E x \in d : x[1] = t)
             THEN KAnswer(Err("ENOTEMPTY"), d, lt)
        ELSE KAnswer(Ok(e), moved, lt)

\* linkat(olddirfd, oldname, newdirfd, newname, 0)
KLinkat(d, lt, od, on, nd, nn) ==
    LET e == Lookup(d, od, on)
    IN  IF e = NoIno THEN KAnswer(Err("ENOENT"), d, lt)
        ELSE IF Lookup(d, nd, nn) # NoIno THEN KAnswer(Err("EEXIST"), d, lt)
        ELSE IF IDev(od) # IDev(nd) THEN KAnswer(Err("EXDEV"), d, lt)
        ELSE IF IType(e) = "dir" THEN KAnswer(Err("EPERM"), d, lt)
        ELSE KAnswer(Ok(e), d \cup {<<nd, nn, e>>}, lt)

\* The names a directory holds (what iterating it yields).
Entries(d, dir) == {e[2] : e \in {x \in d : x[1] = dir}}

(***************************************************************************)
(* More of std::path, for the split-path preprocessor                      *)
(***************************************************************************)

\* path.file_name(): the last component when it is Normal, else <<>> (None).
FileName(p) ==
    LET cs == Components(p)
    IN  IF cs # <<>> /\ cs[Len(cs)].kind = "Normal" THEN cs[Len(cs)].name ELSE <<>>

\* Components::as_path() trims what the back of the iterator would skip:
\* separators and "." segments, the leading "." of a relative path excepted.
RECURSIVE TrimRight(_)
TrimRight(p) ==
    LET n == Len(p)
    IN  IF n = 0 THEN p
        ELSE IF p[n] = "/" THEN (IF n = 1 THEN p ELSE TrimRight(SubSeq(p, 1, n - 1)))
        ELSE IF p[n] = "." /\ n > 1 /\ p[n - 1] = "/"
             THEN (IF n = 2 THEN SubSeq(p, 1, 1) ELSE TrimRight(SubSeq(p, 1, n - 1)))
        ELSE p

RECURSIVE DropLastSegment(_)
DropLastSegment(p) ==
    IF p = <<>> \/ p[Len(p)] = "/" THEN p
    ELSE DropLastSegment(SubSeq(p, 1, Len(p) - 1))

\* path.parent() of a path whose last component is a name.
ParentPath(p) ==
    LET q == DropLastSegment(TrimRight(p))
    IN  IF q = <<>> THEN q ELSE TrimRight(q)

\* path.strip_prefix("/") of an absolute path: the root and what the front of
\* the iterator would skip after it are dropped.
RECURSIVE TrimLeft(_)
TrimLeft(p) ==
    IF p = <<>> THEN p
    ELSE IF p[1] = "/" THEN TrimLeft(Tail(p))
    ELSE IF p[1] = "." /\ (Len(p) = 1 \/ p[2] = "/") THEN TrimLeft(Tail(p))
    ELSE p

StripRootPrefix(p) == TrimLeft(Tail(p))

(***************************************************************************)
(* Inputs                                                                  *)
(***************************************************************************)

\* The paths given to the operations, in this order:
\*   "a"  "a/."  "a/b"  "a/.."  "a/../.."  ".."  "/"  "c"  "l"  "l/../../.."  "a/b/g"  "a/b/g/.."  "n"  "."
\*   ""  "/c"  "a/"  "k"  "m"  "c/n"  "a/n"  "l/n"  "/a/.."  "a/b/g/../.."  "n/.."  "l/"  "m/.."
\*   "./."
AllInputPaths ==
    { <<"a">>,
      <<"a", "/", ".">>,
      <<"a", "/", "b">>,
      <<"a", "/", ".", ".">>,
      <<"a", "/", ".", ".", "/", ".", ".">>,
      <<".", ".">>,
      <<"/">>,
      <<"c">>,
      <<"l">>,
      <<"l", "/", ".", ".", "/", ".", ".", "/", ".", ".">>,
      <<"a", "/", "b", "/", "g">>,
      <<"a", "/", "b", "/", "g", "/", ".", ".">>,
      <<"n">>,
      <<".">>,
      <<>>,
      <<"/", "c">>,
      <<"a", "/">>,
      <<"k">>,
      <<"m">>,
      <<"c", "/", "n">>,
      <<"a", "/", "n">>,
      <<"l", "/", "n">>,
      <<"/", "a", "/", ".", ".">>,
      <<"a", "/", "b", "/", "g", "/", ".", ".", "/", ".", ".">>,
      <<"n", "/", ".", ".">>,
      <<"l", "/">>,
      <<"m", "/", ".", ".">>,
      <<".", "/", ".">> }

\* The targets of the symlink l of the base:
\*   "c"  "/c"  "a/b"  "c/"  ".."  "l"  "k"  "l/c"  "a/b/g"  "../c"  "/"  "."  "n"  "a"
LTargets ==
    { <<"c">>,
      <<"/", "c">>,
      <<"a", "/", "b">>,
      <<"c", "/">>,
      <<".", ".">>,
      <<"l">>,
      <<"k">>,
      <<"l", "/", "c">>,
      <<"a", "/", "b", "/", "g">>,
      <<".", ".", "/", "c">>,
      <<"/">>,
      <<".">>,
      <<"n">>,
      <<"a">> }

\* The targets of the symlink a/b/g:
\*   "../.."  "../../.."  "/l"
GTargets ==
    { <<".", ".", "/", ".", ".">>,
      <<".", ".", "/", ".", ".", "/", ".", ".">>,
      <<"/", "l">> }

\* The longest input path, in characters.
MaxPathLen == 10

InputPaths == {p \in AllInputPaths : Len(p) <= MaxPathLen}

\* The test fixture's targets: l -> a/b (the tests' f), a/b/g -> ../.., and
\* k -> l.
DefaultTargets ==
    [i \in Symlinks |-> IF i = "l" THEN <<"a", "/", "b">>
                        ELSE IF i = "g" THEN <<".", ".", "/", ".", ".">>
                        ELSE IF i = "k" THEN <<"l">>
                        ELSE <<>>]

Trees ==
    {[i \in Symlinks |-> IF i = "l" THEN tl ELSE IF i = "g" THEN tg
                         ELSE DefaultTargets[i]] :
        tl \in LTargets, tg \in GTargets}

Mentions(p, c) == \E i \in 1..Len(p) : p[i] = c

\* A symlink the resolution of p cannot reach keeps its fixture target: the
\* trees of a path differ only in the symlinks it can meet.
TreesFor(p) ==
    LET viaL == Mentions(p, "l") \/ Mentions(p, "k")
    IN  {t \in Trees :
            /\ (~viaL => t["l"] = DefaultTargets["l"])
            /\ (~(Mentions(p, "g") \/ (viaL /\ Mentions(t["l"], "g")))
                   => t["g"] = DefaultTargets["g"])}

AllLookupFlags == {"NO_SYMLINKS", "IN_ROOT", "ALLOW_PARENT_COMPONENTS", "NO_XDEV", "XDEV_BIND_OK"}

OpenOps  == {"open_file", "sub_dir", "new_file", "write_file", "list_dir"}
SplitOps == {"metadata", "create_dir", "remove_dir", "remove_file", "read_link", "symlink"}
PairOps  == {"rename", "hardlink"}

\* lib.rs line 17, on Linux.
BASE_DIR_FLAGS == {"O_PATH", "O_DIRECTORY"}

\* The open flags each wrapper passes to open_file_secure.
FinalFlagsOf(o) ==
    CASE o = "open_file" -> {"O_RDONLY"}
      [] o = "new_file"  -> {"O_CREAT", "O_EXCL", "O_WRONLY"}
      [] o = "write_file" -> {"O_CREAT", "O_WRONLY", "O_TRUNC"}
      [] OTHER           -> BASE_DIR_FLAGS

\* The modes a caller gives to the creating wrappers: 0o600, 0o666.
CallerModes == {384, 438}

\* The mode each wrapper passes to open_file_secure: 0 where nothing is
\* created (lines 154 and 239), the caller's otherwise.
ModesOf(o) == IF o \in {"new_file", "write_file"} THEN CallerModes ELSE {0}

\* The values sysconf(_SC_SYMLOOP_MAX) gives: -1 (no limit defined, as on
\* glibc) or a limit.
SmallSymloopMax == 2
SysconfResults == {-1, SmallSymloopMax}

DEFAULT_SYMLOOP_MAX == 40

(***************************************************************************)
(* State                                                                   *)
(***************************************************************************)

VARIABLES
    dirents,           \* the directory entries <<directory, name, object>>
    linkTarget,        \* the target of each symlink
    wasBeneath,        \* the objects seen at or beneath the base since the call
    op, opPath, lookup_flags,       \* the call: operation, path, LookupFlags
    opPath2,           \* the second path of rename_secure and hardlink_secure
    pc,                \* where the call stands
    path, final_flags, \* the arguments of open_file_secure
    mode,              \* its mode argument
    open_how, raw_how, \* the OpenHow built for openat2 and the RawOpenHow made of it
    root_dev, n_symlinks_found, n_symlinks_max, sysconf_ret,
    components, curdir, parents,    \* the walk: queue, current handle, stack
    fname, open_errno, \* the name whose open failed, and the errno it gave
    met_symlink,       \* an openat of the walk failed on a symlink it would not follow
    expanded,          \* the targets the walk spliced into the queue, in order
    via,               \* what answered open_file_secure
    walk_ret,          \* what open_file_secure returned
    subdir, inner_name,             \* what prepare_inner_operation returned
    old,               \* old_subdir and old_fname, once the first path is prepared
    result, listing,   \* what the operation returned; the entries list_dir yields
    trace              \* the system calls issued since the call: <<call, dirfd, fd>>,
                       \* and the open flags after them for an openat, the errno
                       \* for an openat2

fsVars   == <<dirents, linkTarget, wasBeneath>>
callVars == <<op, opPath, opPath2, lookup_flags>>
argVars  == <<path, final_flags, mode>>
howVars  == <<open_how, raw_how>>
walkVars == <<root_dev, n_symlinks_found, n_symlinks_max, sysconf_ret,
              components, curdir, parents, fname, open_errno, met_symlink, expanded>>
retVars  == <<walk_ret, subdir, result, old>>
vars     == <<fsVars, callVars, pc, argVars, howVars, walkVars, via, retVars, inner_name,
              listing, trace>>

\* A faulty handle: None taken for the root of the file system.
HandleOfRoot(h) == IF h = NoIno THEN "root" ELSE h

\* The directory an optional handle stands for: the base for None.
Handle(h) == IF h = NoIno THEN "base" ELSE h

\* A system call is issued on a directory handle.
Issue(call, dirfd) == trace' = Append(trace, <<call, dirfd, NoIno>>)

\* A faulty walk that owns its current handle only: the handles of the
\* parent stack are never released.
OwnedCurrentOnly(cur, stack) == IF cur = NoIno THEN <<>> ELSE <<cur>>

\* Lines 615-616: the descriptors the walk owns, the Some(Dir) of parents
\* and of curdir.  None stands for the caller's base, which is borrowed.
Owned(cur, stack) ==
    SelectSeq(stack, LAMBDA h : h # NoIno) \o (IF cur = NoIno THEN <<>> ELSE <<cur>>)

\* Dropping owned descriptors closes them, in order.
Closes(hs) == [i \in 1..Len(hs) |-> <<"close", hs[i], NoIno>>]

\* No OpenHow built yet; an Option is a sequence of at most one element.
NoHow    == [flags |-> {}, mode |-> <<>>, resolve_flags |-> {"none"}]
NoRawHow == [flags |-> {}, mode |-> 0, resolve |-> {"none"}]

NoResult == [kind |-> "none", fd |-> NoIno, errno |-> "", creat |-> <<>>]
Panic    == [kind |-> "panic", fd |-> NoIno, errno |-> "", creat |-> <<>>]

\* The calls on the paths of a set, each on the trees it can tell apart.
Inputs(paths) == UNION {{<<p, t>> : t \in TreesFor(p)} : p \in paths}

NoOld == [subdir |-> NoIno, fname |-> <<>>]

InitCallOn(d, inputs, paths2, ops, flagsets) ==
    /\ \E i \in inputs : opPath = i[1] /\ linkTarget = i[2]
    /\ opPath2 \in paths2
    /\ old = NoOld
    /\ op \in ops
    /\ lookup_flags \in flagsets
    /\ dirents = d
    /\ wasBeneath = Beneath(d, "base")
    /\ pc = "call"
    /\ path = <<>> /\ final_flags = {} /\ mode = 0
    /\ open_how = NoHow /\ raw_how = NoRawHow
    /\ root_dev = "any" /\ n_symlinks_found = 0 /\ n_symlinks_max = 0 /\ sysconf_ret = -1
    /\ components = <<>> /\ curdir = NoIno /\ parents = <<>>
    /\ fname = <<>> /\ open_errno = "" /\ met_symlink = FALSE /\ expanded = <<>>
    /\ via = "none" /\ walk_ret = NoResult
    /\ subdir = NoIno /\ inner_name = <<>>
    /\ result = NoResult /\ listing = {}
    /\ trace = <<>>

InitCall2(inputs, paths2, ops, flagsets) ==
    InitCallOn(BaseDirents, inputs, paths2, ops, flagsets)

InitCall(inputs, ops, flagsets) == InitCall2(inputs, {<<>>}, ops, flagsets)

Init == InitCall(Inputs(InputPaths), {"open_file", "sub_dir", "new_file", "metadata"},
                SUBSET AllLookupFlags)

(***************************************************************************)
(* The wrappers and the split-path preprocessor                            *)
(***************************************************************************)

\* sub_dir_secure, new_file_secure, open_file_secure, list_dir_secure: each
\* calls open_file_secure with its open flags.
CallOpen ==
    /\ pc = "call" /\ op \in OpenOps
    /\ path' = opPath
    /\ final_flags' = FinalFlagsOf(op)
    /\ mode' \in ModesOf(op)
    /\ pc' = "open_file_secure"
    /\ UNCHANGED <<fsVars, callVars, howVars, walkVars, via, retVars, inner_name, listing, trace>>

\* A faulty preprocessor that takes an absolute path as IN_ROOT does and the
\* empty path as a name.
PrepareInnerUnchecked(lf, p0) ==
    LET abs == HasRoot(p0)
        p   == IF abs THEN StripRootPrefix(p0) ELSE p0
        out(k, e, w, n) == [kind |-> k, errno |-> e, walk |-> w, name |-> n]
    IN  IF abs /\ p = <<>> THEN out("dir", "", <<>>, <<>>)
        ELSE IF p = <<>> THEN out("name", "", <<>>, <<"n">>)
        ELSE IF FileName(p) # <<>> THEN
            (IF ParentPath(p) = <<>> THEN out("name", "", <<>>, FileName(p))
             ELSE out("walk", "", ParentPath(p), FileName(p)))
        ELSE IF "ALLOW_PARENT_COMPONENTS" \in lf THEN out("walk", "", p, <<>>)
        ELSE out("err", "EXDEV", <<>>, <<>>)

\* prepare_inner_operation: what it decides before any system call.
\*   err:  it returns the error;  dir: (Some(dir), None), the base itself;
\*   name: (None, Some(name));    walk: sub_dir_secure on `walk`, then `name`.
PrepareInner(lf, p0) ==
    LET abs == HasRoot(p0)
        p   == IF abs THEN StripRootPrefix(p0) ELSE p0
        out(k, e, w, n) == [kind |-> k, errno |-> e, walk |-> w, name |-> n]
    IN  IF abs /\ "IN_ROOT" \notin lf THEN out("err", "EXDEV", <<>>, <<>>)
        ELSE IF abs /\ p = <<>> THEN out("dir", "", <<>>, <<>>)
        ELSE IF p = <<>> THEN out("err", "ENOENT", <<>>, <<>>)
        ELSE IF FileName(p) # <<>> THEN
            (IF ParentPath(p) = <<>> THEN out("name", "", <<>>, FileName(p))
             ELSE out("walk", "", ParentPath(p), FileName(p)))
        ELSE IF "ALLOW_PARENT_COMPONENTS" \in lf THEN out("walk", "", p, <<>>)
        ELSE out("err", "EXDEV", <<>>, <<>>)

\* The debug assertions of prepare_inner_operation (lines 502 and 514).
PrepareAssertionsHold(lf, p0) ==
    LET p == IF HasRoot(p0) THEN StripRootPrefix(p0) ELSE p0
    IN  \/ HasRoot(p0) /\ "IN_ROOT" \notin lf
        \/ p = <<>>
        \/ (FileName(p) # <<>> /\ ~EndsWithParent(p))
        \/ (FileName(p) = <<>> /\ EndsWithParent(p))

\* metadata_secure up to the end of prepare_inner_operation's own decisions
\* (a release build, or a debug build whose assertions hold).
Prepare ==
    /\ pc = "call" /\ op \in SplitOps
    /\ LET o == PrepareInner(lookup_flags, opPath)
       IN  /\ inner_name' = o.name
           /\ path' = o.walk
           /\ final_flags' = IF o.kind = "walk" THEN BASE_DIR_FLAGS ELSE final_flags
           /\ mode' = IF o.kind = "walk" THEN 0 ELSE mode
           /\ subdir' = IF o.kind = "dir" THEN "base" ELSE subdir
           /\ result' = IF o.kind = "err" THEN Err(o.errno) ELSE result
           /\ pc' = CASE o.kind = "err"  -> "done"
                      [] o.kind = "walk" -> "open_file_secure"
                      [] OTHER           -> "inner"
    /\ UNCHANGED <<fsVars, callVars, howVars, walkVars, via, walk_ret, old, listing>>
    /\ trace' = IF PrepareInner(lookup_flags, opPath).kind = "dir"
                THEN Append(trace, <<"dup", "base", NoIno>>) ELSE trace

\* A faulty check that lets every first path through.
PairSourceRefusedNever(p) == FALSE

\* Lines 408 and 443: old.ends_with("..").
PairSourceRefused(p) == EndsWithParent(p)

\* A debug build stops at a failed debug_assert!, for the path of a
\* split-path operation and for either path of rename_secure and
\* hardlink_secure.
PrepareAssertFail ==
    /\ \/ pc = "call" /\ op \in SplitOps /\ ~PrepareAssertionsHold(lookup_flags, opPath)
       \/ /\ pc = "call" /\ op \in PairOps /\ ~PairSourceRefused(opPath)
          /\ ~PrepareAssertionsHold(lookup_flags, opPath)
       \/ pc = "call2" /\ ~PrepareAssertionsHold(lookup_flags, opPath2)
    /\ result' = Panic
    /\ pc' = "done"
    /\ UNCHANGED <<fsVars, callVars, howVars, argVars, walkVars, via, walk_ret, subdir, old,
                   inner_name, listing, trace>>

\* hardlink_secure and rename_secure, lines 408-412 and 443-447: a first
\* path that ends with ".." is refused before anything else.
PairSourceParent ==
    /\ pc = "call" /\ op \in PairOps
    /\ PairSourceRefused(opPath)
    /\ result' = Err("ENOTSUP")
    /\ pc' = "done"
    /\ UNCHANGED <<fsVars, callVars, howVars, argVars, walkVars, via, walk_ret, subdir, old,
                   inner_name, listing, trace>>

\* Lines 414-422 and 449-457: the first path is prepared; without a final
\* name ("/" under IN_ROOT) the call is refused.
PairPrepareOld ==
    /\ pc = "call" /\ op \in PairOps
    /\ ~PairSourceRefused(opPath)
    /\ LET o == PrepareInner(lookup_flags, opPath)
       IN  /\ inner_name' = o.name
           /\ path' = o.walk
           /\ final_flags' = IF o.kind = "walk" THEN BASE_DIR_FLAGS ELSE final_flags
           /\ mode' = IF o.kind = "walk" THEN 0 ELSE mode
           /\ old' = IF o.kind = "name" THEN [subdir |-> NoIno, fname |-> o.name] ELSE old
           /\ result' = CASE o.kind = "err" -> Err(o.errno)
                          [] o.kind = "dir" -> Err("ENOTSUP")
                          [] OTHER          -> result
           /\ pc' = CASE o.kind = "walk" -> "open_file_secure"
                      [] o.kind = "name" -> "call2"
                      [] OTHER           -> "done"
           /\ trace' = IF o.kind = "dir" THEN Append(trace, <<"dup", "base", NoIno>>)
                       ELSE trace
    /\ UNCHANGED <<fsVars, callVars, howVars, walkVars, via, walk_ret, subdir, listing>>

\* Lines 424-425 and 459-460: the second path is prepared.
PairPrepareNew ==
    /\ pc = "call2"
    /\ LET o == PrepareInner(lookup_flags, opPath2)
       IN  /\ inner_name' = o.name
           /\ path' = o.walk
           /\ final_flags' = IF o.kind = "walk" THEN BASE_DIR_FLAGS ELSE final_flags
           /\ mode' = IF o.kind = "walk" THEN 0 ELSE mode
           /\ subdir' = IF o.kind = "dir" THEN "base" ELSE NoIno
           /\ result' = IF o.kind = "err" THEN Err(o.errno) ELSE result
           /\ pc' = CASE o.kind = "err"  -> "done"
                      [] o.kind = "walk" -> "open_file_secure"
                      [] OTHER           -> "inner"
           /\ trace' = IF o.kind = "dir" THEN Append(trace, <<"dup", "base", NoIno>>)
                       ELSE trace
    /\ UNCHANGED <<fsVars, callVars, howVars, walkVars, via, walk_ret, old, listing>>

(***************************************************************************)
(* open_file_secure                                                        *)
(***************************************************************************)

Has(f) == f \in lookup_flags

\* What the caller does with open_file_secure's return: the open wrappers
\* return it, list_dir_secure and the preprocessor's callers go on with the
\* directory handle.
\* rename_secure and hardlink_secure refuse a first path without a final
\* name (lines 417-422, 452-457), then prepare the second path.
WalkReturn(res) ==
    /\ walk_ret' = res
    /\ CASE res.kind = "ok" /\ (op \in SplitOps \/ op = "list_dir") ->
                pc' = "inner" /\ subdir' = res.fd /\ UNCHANGED <<result, old>>
         [] res.kind = "ok" /\ op \in PairOps /\ old = NoOld /\ inner_name = <<>> ->
                pc' = "done" /\ result' = Err("ENOTSUP") /\ UNCHANGED <<subdir, old>>
         [] res.kind = "ok" /\ op \in PairOps /\ old = NoOld /\ inner_name # <<>> ->
                /\ pc' = "call2"
                /\ old' = [subdir |-> res.fd, fname |-> inner_name]
                /\ UNCHANGED <<subdir, result>>
         [] res.kind = "ok" /\ op \in PairOps /\ old # NoOld ->
                pc' = "inner" /\ subdir' = res.fd /\ UNCHANGED <<result, old>>
         [] OTHER ->
                pc' = "done" /\ result' = res /\ UNCHANGED <<subdir, old>>

\* The effect of a system call's answer on the file system: O_CREAT may
\* have linked the new file.
AfterSyscall(r) ==
    /\ dirents' = IF r.creat = <<>> THEN dirents
                  ELSE dirents \cup {<<r.creat[1], r.creat[2], r.fd>>}
    /\ wasBeneath' = wasBeneath \cup Beneath(dirents', "base")
    /\ UNCHANGED linkTarget

\* A faulty line 562 that always tries openat2.
UseFastPathAlways(lf) == TRUE

\* Lines 562-563: openat2 is tried unless NO_XDEV and XDEV_BIND_OK are both set.
UseFastPath(lf) == ~("NO_XDEV" \in lf /\ "XDEV_BIND_OK" \in lf)

\* Lines 565-569: the ".." pre-filter of the fast path.
PreFilterRejects(lf, p) ==
    "ALLOW_PARENT_COMPONENTS" \notin lf /\ HasParentComponent(p)

\* A faulty open_how without RESOLVE_BENEATH or RESOLVE_IN_ROOT.
ResolveFlagsOfUnconfined(lf) ==
    {"NO_MAGICLINKS"}
    \cup (IF "NO_SYMLINKS" \in lf THEN {"NO_SYMLINKS"} ELSE {})
    \cup (IF "NO_XDEV" \in lf THEN {"NO_XDEV"} ELSE {})

\* A faulty open_how that sets RESOLVE_BENEATH under IN_ROOT as well.
ResolveFlagsOfBeneathAlways(lf) ==
    {"NO_MAGICLINKS", "BENEATH"}
    \cup (IF "NO_SYMLINKS" \in lf THEN {"NO_SYMLINKS"} ELSE {})
    \cup (IF "NO_XDEV" \in lf THEN {"NO_XDEV"} ELSE {})
    \cup (IF "IN_ROOT" \in lf THEN {"IN_ROOT"} ELSE {})

\* Lines 575-596: the resolve flags of open_how.
ResolveFlagsOf(lf) ==
    {"NO_MAGICLINKS"}
    \cup (IF "NO_SYMLINKS" \in lf THEN {"NO_SYMLINKS"} ELSE {})
    \cup (IF "NO_XDEV" \in lf THEN {"NO_XDEV"} ELSE {})
    \cup (IF "IN_ROOT" \in lf THEN {"IN_ROOT"} ELSE {"BENEATH"})

\* RawOpenHow::from: O_CLOEXEC is forced on.
RawHowFlags(of) == of \cup {"O_CLOEXEC"}

\* libc::O_TMPFILE is two bits, one of them O_DIRECTORY.
O_TMPFILE == {"__O_TMPFILE", "O_DIRECTORY"}

\* A faulty raw_mode that gives the default whenever something may be created.
raw_modeDefaultFirst(h) ==
    IF "O_CREAT" \in h.flags \/ O_TMPFILE \subseteq h.flags THEN 511
    ELSE IF h.mode # <<>> THEN h.mode[1]
    ELSE 0

\* OpenHow::raw_mode, openat2.rs lines 42-50.
raw_mode(h) ==
    IF h.mode # <<>> THEN h.mode[1]
    ELSE IF "O_CREAT" \in h.flags \/ O_TMPFILE \subseteq h.flags THEN 511
    ELSE 0

\* From<&OpenHow> for RawOpenHow, openat2.rs lines 61-69.
RawOpenHowFrom(h) ==
    [flags |-> RawHowFlags(h.flags), mode |-> raw_mode(h), resolve |-> h.resolve_flags]

\* Lines 571-596: the OpenHow of the fast path.
OpenHowOf(ff, m, lf) == [flags |-> ff, mode |-> <<m>>, resolve_flags |-> ResolveFlagsOf(lf)]

\* openat2::openat2 is called with the OpenHow: the raw form goes to the
\* kernel, which answers r.
CallOpenat2(r) ==
    /\ open_how' = OpenHowOf(final_flags, mode, lookup_flags)
    /\ raw_how' = RawOpenHowFrom(OpenHowOf(final_flags, mode, lookup_flags))
    /\ trace' = Append(trace, <<"openat2", "base", r.fd, r.errno>>)

\* What the openat2 system call may answer: a kernel without it answers
\* ENOSYS, one that does not know this open_how E2BIG, another one resolves
\* the path.
KOpenat2Answers(d, lt, dir, p, raw) ==
    {KOpenat2(d, lt, dir, p, raw.resolve, raw.flags), Err("ENOSYS"), Err("E2BIG")}

\* A faulty line 603 that falls back on ENOSYS only.
FallsBackEnosysOnly(r) == r.kind = "err" /\ r.errno = "ENOSYS"

\* Lines 598-606: the answers of openat2 after which the manual walk runs.
FallsBack(r) == r.kind = "err" /\ r.errno \in {"ENOSYS", "E2BIG"}

FastPathFilter ==
    /\ pc = "open_file_secure"
    /\ UseFastPath(lookup_flags)
    /\ PreFilterRejects(lookup_flags, path)
    /\ via' = "prefilter"
    /\ WalkReturn(Err("EXDEV"))
    /\ UNCHANGED <<fsVars, callVars, howVars, argVars, walkVars, inner_name, listing, trace>>

\* Lines 599 and 604: the answer of openat2 is returned.
FastPathOpenat2 ==
    /\ pc = "open_file_secure"
    /\ UseFastPath(lookup_flags)
    /\ ~PreFilterRejects(lookup_flags, path)
    /\ \E r \in KOpenat2Answers(dirents, linkTarget, "base", path,
                                 RawOpenHowFrom(OpenHowOf(final_flags, mode, lookup_flags))) :
          /\ ~FallsBack(r)
          /\ CallOpenat2(r)
          /\ AfterSyscall(r)
          /\ WalkReturn(r)
    /\ via' = "openat2"
    /\ UNCHANGED <<callVars, argVars, walkVars, inner_name, listing>>

\* Line 603: the manual walk follows.
FastPathFallback ==
    /\ pc = "open_file_secure"
    /\ UseFastPath(lookup_flags)
    /\ ~PreFilterRejects(lookup_flags, path)
    /\ \E r \in KOpenat2Answers(dirents, linkTarget, "base", path,
                                 RawOpenHowFrom(OpenHowOf(final_flags, mode, lookup_flags))) :
          /\ FallsBack(r)
          /\ CallOpenat2(r)
    /\ pc' = "walk_init"
    /\ UNCHANGED <<fsVars, callVars, argVars, walkVars, via, retVars, inner_name, listing>>

FastPathSkip ==
    /\ pc = "open_file_secure"
    /\ ~UseFastPath(lookup_flags)
    /\ pc' = "walk_init"
    /\ UNCHANGED <<fsVars, callVars, howVars, argVars, walkVars, via, retVars, inner_name, listing, trace>>

\* A faulty limit that forgets NO_SYMLINKS.
SymlinkLimitWithoutFlag(lf, sc) == IF sc >= 0 THEN sc ELSE DEFAULT_SYMLOOP_MAX

\* Lines 618-624 and util::get_symloop_max: 0 under NO_SYMLINKS, else the
\* sysconf value when it is not negative, else the default.
SymlinkLimit(lf, sc) ==
    IF "NO_SYMLINKS" \in lf THEN 0
    ELSE IF sc >= 0 THEN sc ELSE DEFAULT_SYMLOOP_MAX

\* Lines 609-631.
WalkInit ==
    /\ pc = "walk_init"
    /\ root_dev' = IF Has("NO_XDEV") THEN IDev("base") ELSE "any"
    /\ \E sc \in SysconfResults :
          /\ sysconf_ret' = sc
          /\ n_symlinks_max' = SymlinkLimit(lookup_flags, sc)
    /\ n_symlinks_found' = 0
    /\ curdir' = NoIno
    /\ parents' = <<>>
    /\ components' = PathTokens(path)
    /\ via' = "walk"
    /\ pc' = "loop"
    /\ UNCHANGED <<fsVars, callVars, howVars, argVars, fname, open_errno, met_symlink, expanded,
                   retVars, inner_name, listing>>
    /\ trace' = IF Has("NO_XDEV") THEN Append(trace, <<"fstat", "base", NoIno>>) ELSE trace

\* Faulty root tokens: IN_ROOT read the wrong way round, and not read.
RootAllowedInverted(lf) == "IN_ROOT" \notin lf
RootAllowedAlways(lf)   == TRUE

\* Lines 634-640: the root token.
RootAllowed(lf) == "IN_ROOT" \in lf

PopRoot ==
    /\ pc = "loop" /\ components # <<>> /\ Head(components) = RootTok
    /\ components' = Tail(components)
    /\ IF RootAllowed(lookup_flags)
       THEN /\ parents' = <<>>
            /\ curdir' = NoIno
            /\ pc' = "loop"
            /\ UNCHANGED retVars
       ELSE /\ WalkReturn(Err("EXDEV"))
            /\ UNCHANGED <<parents, curdir>>
    /\ trace' = trace \o Closes(Owned(curdir, parents))
    /\ UNCHANGED <<fsVars, callVars, howVars, argVars, root_dev, n_symlinks_found, n_symlinks_max,
                   sysconf_ret, fname, open_errno, met_symlink, expanded, via, inner_name,
                   listing>>

\* A faulty parent token: ".." at the base stays at the base whether or not
\* IN_ROOT is set.
ParentStepUnchecked(lf, stack) ==
    IF "ALLOW_PARENT_COMPONENTS" \notin lf THEN "err"
    ELSE IF stack # <<>> THEN "pop"
    ELSE "stay"

\* Lines 641-650: the parent token.  "pop": take the handle on top of the
\* stack; "stay": leave current as it is; "err": EXDEV.
ParentStep(lf, stack) ==
    IF "ALLOW_PARENT_COMPONENTS" \notin lf THEN "err"
    ELSE IF stack # <<>> THEN "pop"
    ELSE IF "IN_ROOT" \notin lf THEN "err"
    ELSE "stay"

\* A faulty line 646 that takes the oldest handle of the stack.
PoppedHandleBottom(stack) == stack[1]

\* Line 646, parents.pop(): the handle pushed last.
PoppedHandle(stack) == stack[Len(stack)]

PopParent ==
    /\ pc = "loop" /\ components # <<>> /\ Head(components) = ParentTok
    /\ components' = Tail(components)
    /\ LET how == ParentStep(lookup_flags, parents)
       IN  CASE how = "pop" ->
                    /\ curdir' = PoppedHandle(parents)
                    /\ parents' = SubSeq(parents, 1, Len(parents) - 1)
                    /\ pc' = "loop"
                    /\ trace' = trace \o Closes(Owned(curdir, <<>>))
                    /\ UNCHANGED retVars
             [] how = "stay" ->
                    /\ pc' = "loop"
                    /\ UNCHANGED <<curdir, parents, retVars, trace>>
             [] OTHER ->
                    /\ WalkReturn(Err("EXDEV"))
                    /\ trace' = trace \o Closes(Owned(curdir, parents))
                    /\ UNCHANGED <<curdir, parents>>
    /\ UNCHANGED <<fsVars, callVars, howVars, argVars, root_dev, n_symlinks_found, n_symlinks_max,
                   sysconf_ret, fname, open_errno, met_symlink, expanded, via, inner_name,
                   listing>>

\* A faulty line 658 that opens every name with the caller's flags.
CurFlagsOfCaller(rest, ff) == ff

\* Lines 658-662: the caller's flags for the last pending component, the
\* interior flags otherwise.
CurFlags(rest, ff) == IF rest = <<>> THEN ff ELSE BASE_DIR_FLAGS

\* A faulty line 667, without O_NOFOLLOW: the kernel follows a symlink in
\* the name by itself.
NameOpenFlagsFollowing(cf) == cf \cup {"O_CLOEXEC"}

\* Line 667.
NameOpenFlags(cf) == cf \cup {"O_NOFOLLOW", "O_CLOEXEC"}

\* A faulty device check that never fires.
DevMismatchNever(lf, fd, dev) == FALSE

\* Lines 671-675: the device check on the opened file.
DevMismatch(lf, fd, dev) == "NO_XDEV" \in lf /\ IDev(fd) # dev

\* A faulty line 712 that takes only ELOOP for a symlink.
MaybeSymlinkEloopOnly(errno) == errno = "ELOOP"

\* Line 712 (Linux: no errno is translated).
MaybeSymlink(errno) == errno = "ELOOP" \/ errno = "ENOTDIR"

\* A faulty line 681 that keeps the handle whatever the flags.
PushParentAlways(lf, stack, cur) == Append(stack, cur)

\* Lines 681-683: the handle that was current is kept on the stack under
\* ALLOW_PARENT_COMPONENTS.
PushParent(lf, stack, cur) ==
    IF "ALLOW_PARENT_COMPONENTS" \in lf THEN Append(stack, cur) ELSE stack

\* Lines 651-692 and 766-768: openat on a name.
PopName ==
    /\ pc = "loop" /\ components # <<>>
    /\ Head(components) # RootTok /\ Head(components) # ParentTok
    /\ LET name == Head(components)
           rest == Tail(components)
           dir  == Handle(curdir)
       IN  \E r \in KOpenatAnswers(dirents, linkTarget, dir, name,
                                   NameOpenFlags(CurFlags(rest, final_flags))) :
           LET kind == IF r.kind = "ok"
                       THEN (IF DevMismatch(lookup_flags, r.fd, root_dev) THEN "xdev"
                             ELSE IF rest = <<>> THEN "final" ELSE "descend")
                       ELSE IF MaybeSymlink(r.errno) THEN "readlink" ELSE "error"
           IN  /\ components' = rest
               /\ AfterSyscall(r)
               /\ trace' = Append(trace, <<"openat", dir, r.fd,
                                            NameOpenFlags(CurFlags(rest, final_flags))>>)
                           \o (IF r.kind = "ok" /\ Has("NO_XDEV")
                               THEN << <<"fstat", r.fd, NoIno>> >> ELSE <<>>)
                           \o (CASE kind = "xdev" ->
                                        Closes(<<r.fd>>) \o Closes(Owned(curdir, parents))
                                  [] kind = "descend" ->
                                        IF Has("ALLOW_PARENT_COMPONENTS") THEN <<>>
                                        ELSE Closes(Owned(curdir, <<>>))
                                  [] kind = "readlink" -> <<>>
                                  [] OTHER -> Closes(Owned(curdir, parents)))
               /\ met_symlink' = (met_symlink \/
                                    (/\ IType(Lookup(dirents, dir, name)) = "symlink"
                                     /\ r.kind = "err" /\ r.errno \in {"ELOOP", "ENOTDIR"}))
               /\ CASE kind = "xdev"  -> /\ WalkReturn(Err("EXDEV"))
                                         /\ UNCHANGED <<curdir, parents, fname, open_errno>>
                    [] kind = "final" -> /\ WalkReturn(r)
                                         /\ UNCHANGED <<curdir, parents, fname, open_errno>>
                    [] kind = "descend" ->
                           /\ parents' = PushParent(lookup_flags, parents, curdir)
                           /\ curdir' = r.fd
                           /\ pc' = "loop"
                           /\ UNCHANGED <<fname, open_errno, retVars>>
                    [] kind = "readlink" ->
                           /\ fname' = name
                           /\ open_errno' = r.errno
                           /\ pc' = "readlink"
                           /\ UNCHANGED <<curdir, parents, retVars>>
                    [] OTHER -> /\ WalkReturn(r)
                                /\ UNCHANGED <<curdir, parents, fname, open_errno>>
    /\ UNCHANGED <<callVars, howVars, argVars, root_dev, n_symlinks_found, n_symlinks_max,
                   sysconf_ret, expanded, via, inner_name, listing>>

\* Lines 759-765: the target's components are pushed on the front of the
\* queue from the last to the first.
RECURSIVE PushFrontRev(_, _, _)
PushFrontRev(cs, i, q) ==
    IF i = 0 THEN q
    ELSE LET t == map_component_cstring(cs[i])
         IN  PushFrontRev(cs, i - 1, IF t = <<>> THEN q ELSE <<t>> \o q)

\* A faulty splice that puts the target's components behind the pending
\* ones.
SpliceTargetBehind(target, q) ==
    q \o PushFrontRev(Components(target), Len(Components(target)), <<>>)

SpliceTarget(target, q) == PushFrontRev(Components(target), Len(Components(target)), q)

\* A faulty line 747 that never stops.
LimitReachedNever(found, max) == FALSE

\* A faulty line 747: off by one.
LimitReachedLate(found, max) == found > max

\* Line 747.
LimitReached(found, max) == found >= max

\* A faulty line 755 that never asks for a directory.
FinalFlagsAfterLinkUnchanged(ff, rest, target) == ff

\* Lines 752-757: the target of a symlink in the last position ends with a
\* slash, so what it names must be a directory.
FinalFlagsAfterLink(ff, rest, target) ==
    IF rest = <<>> /\ EndsWithSlash(target) THEN ff \cup {"O_DIRECTORY"} ELSE ff

\* A faulty line 726 that answers EAGAIN whatever the open's errno was.
ReadlinkFailureAgain(oerrno, rerrno) == IF rerrno = "EINVAL" THEN "EAGAIN" ELSE rerrno

\* A faulty line 725 that passes every error of readlinkat up.
ReadlinkFailureAsIs(oerrno, rerrno) == rerrno

\* Lines 725-739: the errno returned when readlinkat fails.  EINVAL says the
\* name is not a symlink: the open's ENOTDIR is returned, and an open's ELOOP
\* becomes EAGAIN.
ReadlinkFailure(oerrno, rerrno) ==
    IF rerrno = "EINVAL"
    THEN (IF oerrno = "ENOTDIR" THEN oerrno ELSE "EAGAIN")
    ELSE rerrno

\* Lines 720-765: readlinkat on the name whose open failed.
ReadLink ==
    /\ pc = "readlink"
    /\ LET dir == IF curdir = NoIno THEN "base" ELSE curdir
           rl  == KReadlink(dirents, linkTarget, dir, fname)
       IN  IF rl.kind = "err" THEN
               /\ WalkReturn(Err(ReadlinkFailure(open_errno, rl.errno)))
               /\ trace' = Append(trace, <<"readlinkat", dir, NoIno>>)
                           \o Closes(Owned(curdir, parents))
               /\ UNCHANGED <<n_symlinks_found, final_flags, components, expanded>>
           ELSE IF LimitReached(n_symlinks_found, n_symlinks_max) THEN
               /\ WalkReturn(Err("ELOOP"))
               /\ trace' = Append(trace, <<"readlinkat", dir, NoIno>>)
                           \o Closes(Owned(curdir, parents))
               /\ UNCHANGED <<n_symlinks_found, final_flags, components, expanded>>
           ELSE
               /\ n_symlinks_found' = n_symlinks_found + 1
               /\ final_flags' = FinalFlagsAfterLink(final_flags, components, rl.target)
               /\ components' = SpliceTarget(rl.target, components)
               /\ expanded' = Append(expanded, rl.target)
               /\ pc' = "loop"
               /\ Issue("readlinkat", dir)
               /\ UNCHANGED retVars
    /\ UNCHANGED <<fsVars, callVars, howVars, path, mode, root_dev, n_symlinks_max, sysconf_ret,
                   curdir, parents, fname, open_errno, met_symlink, via, inner_name, listing>>

\* A faulty end of the walk that looks at the open flags.
WalkEndResultByFlags(cur, ff) ==
    IF {"O_CREAT", "O_EXCL"} \subseteq ff THEN Err("EEXIST") ELSE Ok(Handle(cur))

\* Lines 773-777: the current directory's handle, or a duplicate of the
\* base's; the open flags are not looked at.
WalkEndResult(cur, ff) == Ok(Handle(cur))

\* Lines 773-777: the queue is empty and no open returned.
WalkEnd ==
    /\ pc = "loop" /\ components = <<>>
    /\ WalkReturn(WalkEndResult(curdir, final_flags))
    /\ UNCHANGED <<fsVars, callVars, howVars, argVars, walkVars, via, inner_name, listing>>
    /\ trace' = (IF curdir = NoIno THEN Append(trace, <<"dup", "base", NoIno>>) ELSE trace)
                \o Closes(Owned(NoIno, parents))

(***************************************************************************)
(* After the directory handle: the primitive operation                     *)
(***************************************************************************)

\* metadata_secure, lines 351-357.
InnerMetadata ==
    /\ pc = "inner" /\ op = "metadata"
    /\ LET dir == IF subdir = NoIno THEN "base" ELSE subdir
       IN  result' = IF inner_name # <<>> THEN KStat(dirents, dir, inner_name) ELSE Ok(dir)
    /\ pc' = "done"
    /\ UNCHANGED <<fsVars, callVars, howVars, argVars, walkVars, via, walk_ret, subdir, old,
                   inner_name, listing>>
    /\ Issue("fstatat", Handle(subdir))

\* list_dir_secure, line 341: list_self on the directory sub_dir_secure gave.
ListSelf ==
    /\ pc = "inner" /\ op = "list_dir"
    /\ result' = Ok(subdir)
    /\ listing' = Entries(dirents, subdir)
    /\ pc' = "done"
    /\ UNCHANGED <<fsVars, callVars, howVars, argVars, walkVars, via, walk_ret, subdir, old,
                   inner_name>>
    /\ Issue("getdents", subdir)

\* Faulty errnos: remove_file_secure and read_link_secure swapped.
NoNameErrnoSwapped(o, p) ==
    CASE o = "remove_file" -> "EINVAL"
      [] o = "read_link"   -> "EISDIR"
      [] OTHER             -> "EEXIST"

\* The errno of a split-path operation whose path has no final name: the
\* path is the base ("/" under IN_ROOT) or was resolved as a whole.
\*   create_dir_secure 296, remove_dir_secure 312-318, remove_file_secure 332,
\*   read_link_secure 370, symlink_secure 385.
NoNameErrno(o, p) ==
    CASE o = "create_dir"  -> "EEXIST"
      [] o = "symlink"     -> "EEXIST"
      [] o = "remove_file" -> "EISDIR"
      [] o = "read_link"   -> "EINVAL"
      [] OTHER ->
           IF Components(p) = Components(<<"/">>) \/ Components(p) = Components(<<".", ".">>)
           THEN "EBUSY" ELSE "ENOTEMPTY"

\* A faulty errno for a second path without a final name: the one of the
\* first path.
DestNoNameErrnoAsSource(o) == "ENOTSUP"

\* Lines 430 and 465: the second path of hardlink_secure and rename_secure
\* has no final name.
DestNoNameErrno(o) == "EEXIST"

\* The values symlink_secure is given for the new symlink: "c", "..".
SymlinkValues == { <<"c">>, <<".", ".">> }

\* The operation ends without a system call.
InnerRefuse(errno) ==
    /\ result' = Err(errno)
    /\ pc' = "done"
    /\ UNCHANGED <<fsVars, callVars, howVars, argVars, walkVars, via, walk_ret, subdir, old,
                   inner_name, listing, trace>>

\* The operation ends with the answer of its system call on dir.
InnerSyscall(call, dir, k) ==
    /\ result' = k.res
    /\ dirents' = k.d
    /\ linkTarget' = k.lt
    /\ wasBeneath' = wasBeneath \cup Beneath(k.d, "base")
    /\ Issue(call, dir)
    /\ pc' = "done"
    /\ UNCHANGED <<callVars, howVars, argVars, walkVars, via, walk_ret, subdir, old, inner_name,
                   listing>>

\* create_dir_secure, lines 293-297.
InnerCreateDir ==
    /\ pc = "inner" /\ op = "create_dir"
    /\ IF inner_name = <<>> THEN InnerRefuse(NoNameErrno(op, opPath))
       ELSE InnerSyscall("mkdirat", Handle(subdir),
                         KMkdirat(dirents, linkTarget, Handle(subdir), inner_name))

\* remove_dir_secure, lines 309-319.
InnerRemoveDir ==
    /\ pc = "inner" /\ op = "remove_dir"
    /\ IF inner_name = <<>> THEN InnerRefuse(NoNameErrno(op, opPath))
       ELSE InnerSyscall("unlinkat", Handle(subdir),
                         KRmdir(dirents, linkTarget, Handle(subdir), inner_name))

\* remove_file_secure, lines 329-333.
InnerRemoveFile ==
    /\ pc = "inner" /\ op = "remove_file"
    /\ IF inner_name = <<>> THEN InnerRefuse(NoNameErrno(op, opPath))
       ELSE InnerSyscall("unlinkat", Handle(subdir),
                         KUnlink(dirents, linkTarget, Handle(subdir), inner_name))

\* read_link_secure, lines 367-371.
InnerReadLink ==
    /\ pc = "inner" /\ op = "read_link"
    /\ IF inner_name = <<>> THEN InnerRefuse(NoNameErrno(op, opPath))
       ELSE LET rl == KReadlink(dirents, linkTarget, Handle(subdir), inner_name)
                r  == IF rl.kind = "ok" THEN Ok(Lookup(dirents, Handle(subdir), inner_name))
                      ELSE Err(rl.errno)
            IN  InnerSyscall("readlinkat", Handle(subdir), KAnswer(r, dirents, linkTarget))

\* symlink_secure, lines 382-386.
InnerSymlink ==
    /\ pc = "inner" /\ op = "symlink"
    /\ IF inner_name = <<>> THEN InnerRefuse(NoNameErrno(op, opPath))
       ELSE \E value \in SymlinkValues :
               InnerSyscall("symlinkat", Handle(subdir),
                            KSymlinkat(dirents, linkTarget, Handle(subdir), inner_name, value))

\* rename_secure, lines 462-466.
InnerRename ==
    /\ pc = "inner" /\ op = "rename"
    /\ IF inner_name = <<>> THEN InnerRefuse(DestNoNameErrno(op))
       ELSE InnerSyscall("renameat", Handle(subdir),
                         KRenameat(dirents, linkTarget, Handle(old.subdir), old.fname,
                                   Handle(subdir), inner_name))

\* hardlink_secure, lines 427-431.
InnerHardlink ==
    /\ pc = "inner" /\ op = "hardlink"
    /\ IF inner_name = <<>> THEN InnerRefuse(DestNoNameErrno(op))
       ELSE InnerSyscall("linkat", Handle(subdir),
                         KLinkat(dirents, linkTarget, Handle(old.subdir), old.fname,
                                 Handle(subdir), inner_name))

(***************************************************************************)
(* Another process working on the same file system                         *)
(***************************************************************************)

\* The other process acts between two system calls of the manual walk.
BetweenSyscalls == pc \in {"loop", "readlink"}

\* How many changes the other process makes during one call.
MaxAdvSteps == 2

AdvDirs  == {"root", "base", "outa"}
AdvNames == {N("b"), N("c")}

\* The changes made so far: entries no longer where they were, entries of
\* the file the other process created.
AdvChanges(d) == Cardinality(BaseDirents \ d) + Cardinality({e \in d : e[3] = "adv"})

AdvApply(d) ==
    /\ AdvChanges(d) <= MaxAdvSteps
    /\ dirents' = d
    /\ wasBeneath' = wasBeneath \cup Beneath(d, "base")
    /\ UNCHANGED <<linkTarget, callVars, howVars, pc, argVars, walkVars, via, retVars, inner_name,
                   listing, trace>>

\* rename(2) of one entry into another directory, under its name: the name
\* must be free there, and a directory does not move into itself.
AdvRename ==
    /\ BetweenSyscalls
    /\ \E e \in dirents, dst \in AdvDirs :
          /\ e[3] # "base" /\ dst # e[1]
          /\ Lookup(dirents, dst, e[2]) = NoIno
          /\ dst \notin Beneath(dirents, e[3])
          /\ AdvApply((dirents \ {e}) \cup {<<dst, e[2], e[3]>>})

\* A new regular file.
AdvCreate ==
    /\ BetweenSyscalls
    /\ \A e \in dirents : e[3] # "adv"
    /\ \E dir \in AdvDirs, name \in AdvNames :
          /\ Lookup(dirents, dir, name) = NoIno
          /\ AdvApply(dirents \cup {<<dir, name, "adv">>})

\* rename(2) of a file or a symlink over the name of another one, which it
\* replaces.
AdvReplace ==
    /\ BetweenSyscalls
    /\ \E e \in dirents, f \in dirents :
          /\ e # f /\ IType(e[3]) # "dir" /\ IType(f[3]) # "dir"
          /\ AdvApply((dirents \ {e, f}) \cup {<<f[1], f[2], e[3]>>})

\* unlink(2) of a file or a symlink.
AdvUnlink ==
    /\ BetweenSyscalls
    /\ \E e \in dirents :
          /\ IType(e[3]) # "dir"
          /\ AdvApply(dirents \ {e})

\* Lines 598-604 while another process renames: openat2 confines the
\* resolution (RESOLVE_BENEATH or RESOLVE_IN_ROOT is always set), and the
\* kernel answers EAGAIN at a ".." when a rename has happened since the
\* resolution began, as it cannot tell that the ".." stays inside.  The
\* errno is returned as it is.
Openat2Raced ==
    /\ pc = "open_file_secure"
    /\ UseFastPath(lookup_flags)
    /\ ~PreFilterRejects(lookup_flags, path)
    /\ HasParentComponent(path)
    /\ \E e \in dirents, f \in dirents :
          /\ e # f /\ IType(e[3]) # "dir" /\ IType(f[3]) # "dir"
          /\ AdvChanges((dirents \ {e, f}) \cup {<<f[1], f[2], e[3]>>}) <= MaxAdvSteps
          /\ dirents' = (dirents \ {e, f}) \cup {<<f[1], f[2], e[3]>>}
    /\ wasBeneath' = wasBeneath \cup Beneath(dirents', "base")
    /\ UNCHANGED linkTarget
    /\ CallOpenat2(Err("EAGAIN"))
    /\ WalkReturn(Err("EAGAIN"))
    /\ via' = "openat2"
    /\ UNCHANGED <<callVars, argVars, walkVars, inner_name, listing>>

(***************************************************************************)
(* Specifications                                                          *)
(***************************************************************************)

\* open_file_secure, from its entry to its return.
OpenFileSecure ==
    \/ FastPathFilter \/ FastPathOpenat2 \/ FastPathFallback \/ FastPathSkip
    \/ WalkInit \/ PopRoot \/ PopParent \/ PopName \/ ReadLink \/ WalkEnd

\* One call of an open wrapper or of metadata_secure, nothing else touching
\* the file system.
Next ==
    \/ CallOpen \/ Prepare \/ PrepareAssertFail
    \/ OpenFileSecure
    \/ InnerMetadata

Spec == Init /\ [][Next]_vars

\* The call runs on: the code has no point where it waits for anything but
\* the return of a system call, so steps are taken until it has returned.
\* Next is enabled exactly while pc # "done", which makes this weak fairness
\* of Next, WF_vars(Next), written without ENABLED.
RunsOn == []<>(pc = "done") \/ []<><<Next>>_vars

SpecLive == Spec /\ RunsOn

\* One call of list_dir_secure.
InitList == InitCall(Inputs(InputPaths), {"list_dir"}, SUBSET AllLookupFlags)

NextList == CallOpen \/ OpenFileSecure \/ ListSelf

SpecList == InitList /\ [][NextList]_vars

\* One open while another process renames and creates.
\*   paths:  "a/c"  "a/.."  "/a"  "l"
RacePaths ==
    { <<"a", "/", "c">>, <<"a", "/", ".", ".">>, <<"/", "a">>, <<"l">> }

RaceFlagSets ==
    { {}, {"ALLOW_PARENT_COMPONENTS"}, {"IN_ROOT"}, {"NO_XDEV", "XDEV_BIND_OK"} }

InitRace == InitCall(RacePaths \X {DefaultTargets}, {"open_file"}, RaceFlagSets)

NextRace == CallOpen \/ OpenFileSecure \/ AdvRename \/ AdvCreate

SpecRace == InitRace /\ [][NextRace]_vars

\* One call of a split-path operation, or of rename_secure or
\* hardlink_secure inside the base.
\*   paths:   ""  "/"  "/a"  "/c"  "a"  "c"  "n"  "a/n"  "a/b"  "a/.."  "a/b/.."  ".."
\*            "."  "l"  "m"  "l/n"  "a/../.."  "/a/.."  "a/b/g/n"  "a/../a"
OpsPaths ==
    { <<>>, <<"/">>, <<"/", "a">>, <<"/", "c">>, <<"a">>, <<"c">>, <<"n">>,
      <<"a", "/", "n">>, <<"a", "/", "b">>, <<"a", "/", ".", ".">>,
      <<"a", "/", "b", "/", ".", ".">>, <<".", ".">>, <<".">>, <<"l">>, <<"m">>,
      <<"l", "/", "n">>, <<"a", "/", ".", ".", "/", ".", ".">>, <<"/", "a", "/", ".", ".">>,
      <<"a", "/", "b", "/", "g", "/", "n">>, <<"a", "/", ".", ".", "/", "a">> }

\*   first paths:   ""  "/"  "/c"  "/a/.."  "a"  "c"  "n"  "a/b"  "a/.."  ".."  "."  "m"
SourcePaths ==
    { <<>>, <<"/">>, <<"/", "c">>, <<"/", "a", "/", ".", ".">>, <<"a">>, <<"c">>, <<"n">>,
      <<"a", "/", "b">>, <<"a", "/", ".", ".">>, <<".", ".">>, <<".">>, <<"m">> }

\*   second paths:  ""  "/"  "/n"  "n"  "c"  "a/n"  "a/.."  "a/b/.."  ".."  "."  "m/n"
\*                  "a/b/n"
DestPaths ==
    { <<>>, <<"/">>, <<"/", "n">>, <<"n">>, <<"c">>, <<"a", "/", "n">>,
      <<"a", "/", ".", ".">>, <<"a", "/", "b", "/", ".", ".">>, <<".", ".">>, <<".">>,
      <<"m", "/", "n">>, <<"a", "/", "b", "/", "n">> }

InitOps ==
    \/ InitCall(Inputs(OpsPaths), SplitOps \ {"metadata"}, SUBSET AllLookupFlags)
    \/ InitCall2(Inputs(SourcePaths), DestPaths, PairOps, SUBSET AllLookupFlags)

NextOps ==
    \/ Prepare \/ PrepareAssertFail
    \/ PairSourceParent \/ PairPrepareOld \/ PairPrepareNew
    \/ OpenFileSecure
    \/ InnerCreateDir \/ InnerRemoveDir \/ InnerRemoveFile \/ InnerReadLink \/ InnerSymlink
    \/ InnerRename \/ InnerHardlink

SpecOps == InitOps /\ [][NextOps]_vars

\* One open with each set of open flags the wrappers pass.
\*   paths:  "l"  "k"  "l/"  "c"  "n"  "a/n"  "/c"  "a/b/g"  "."  "./."  ""  "/"  "a"  "a/."
FlagPaths ==
    { <<"l">>, <<"k">>, <<"l", "/">>, <<"c">>, <<"n">>, <<"a", "/", "n">>, <<"/", "c">>,
      <<"a", "/", "b", "/", "g">>, <<".">>, <<".", "/", ".">>, <<>>, <<"/">>, <<"a">>,
      <<"a", "/", ".">>, <<"a", "/", ".", ".">> }

InitFlags == InitCall(Inputs(FlagPaths \cap InputPaths),
                      {"open_file", "sub_dir", "new_file", "write_file"},
                      SUBSET AllLookupFlags)

NextFlags == CallOpen \/ OpenFileSecure

SpecFlags == InitFlags /\ [][NextFlags]_vars

\* One call of hardlink_secure or rename_secure whose second path may go
\* through the symlink l of the base, on each target of l.
\*   first paths:   "c"  "a/b"  "l"  "a/.."  "."
\*   second paths:  "l/n"  "l/c"  "n"  "a/../n"
LinkSources == { <<"c">>, <<"a", "/", "b">>, <<"l">>, <<"a", "/", ".", ".">>, <<".">> }

LinkDests ==
    { <<"l", "/", "n">>, <<"l", "/", "c">>, <<"n">>, <<"a", "/", ".", ".", "/", "n">> }

InitLink == InitCall2(LinkSources \X TreesFor(<<"l">>), LinkDests, PairOps,
                      SUBSET AllLookupFlags)

NextLink ==
    \/ PrepareAssertFail \/ PairSourceParent \/ PairPrepareOld \/ PairPrepareNew
    \/ OpenFileSecure
    \/ InnerRename \/ InnerHardlink

SpecLink == InitLink /\ [][NextLink]_vars

\* One call of metadata_secure or remove_file_secure on a path that ends
\* with a separator.
\*   paths:  "c/"  "a/"  "a/b/"  "l/"  "l/g/"  "a/../c/"  "n/"  "a//"  "/c/"  "."
SlashPaths ==
    { <<"c", "/">>, <<"a", "/">>, <<"a", "/", "b", "/">>, <<"l", "/">>,
      <<"l", "/", "g", "/">>, <<"a", "/", ".", ".", "/", "c", "/">>, <<"n", "/">>,
      <<"a", "/", "/">>, <<"/", "c", "/">>, <<".">> }

InitSlash == InitCall(Inputs(SlashPaths), {"metadata", "remove_file"}, SUBSET AllLookupFlags)

NextSlash ==
    \/ Prepare \/ PrepareAssertFail
    \/ OpenFileSecure
    \/ InnerMetadata \/ InnerRemoveFile

SpecSlash == InitSlash /\ [][NextSlash]_vars

\* One open while another process replaces and removes files and symlinks.
\*   paths:  "l"  "k"  "c/n"  "/a"  "a/.."
SwapPaths ==
    { <<"l">>, <<"k">>, <<"c", "/", "n">>, <<"/", "a">>, <<"a", "/", ".", ".">> }

InitSwap == InitCall(SwapPaths \X {DefaultTargets}, {"open_file"}, RaceFlagSets)

NextSwap == CallOpen \/ OpenFileSecure \/ Openat2Raced \/ AdvReplace \/ AdvUnlink

SpecSwap == InitSwap /\ [][NextSwap]_vars

\* One call of an open wrapper in a base that holds f, a regular file of
\* another file system.
\*   paths:  "f"  "/f"  "a/../f"  "l"  "n"  "m"  "c"  "."
XdevDirents == BaseDirents \cup { <<"base", N("f"), "f">> }

XdevPaths ==
    { <<"f">>, <<"/", "f">>, <<"a", "/", ".", ".", "/", "f">>, <<"l">>, <<"n">>, <<"m">>,
      <<"c">>, <<".">> }

InitXdev == InitCallOn(XdevDirents, XdevPaths \X {DefaultTargets}, {<<>>},
                       {"open_file", "sub_dir", "new_file", "write_file"},
                       SUBSET AllLookupFlags)

NextXdev == CallOpen \/ OpenFileSecure

SpecXdev == InitXdev /\ [][NextXdev]_vars

\* One open that goes down two directories and up again while another
\* process renames.
\*   paths:  "a/b/.."  "a/b/g"  "/a"
UpPaths ==
    { <<"a", "/", "b", "/", ".", ".">>, <<"a", "/", "b", "/", "g">>, <<"/", "a">> }

UpFlagSets == RaceFlagSets \cup { {"ALLOW_PARENT_COMPONENTS", "IN_ROOT"} }

InitUp == InitCall(UpPaths \X {DefaultTargets}, {"open_file"}, UpFlagSets)

NextUp == CallOpen \/ OpenFileSecure \/ AdvRename

SpecUp == InitUp /\ [][NextUp]_vars

(***************************************************************************)
(* Properties                                                              *)
(***************************************************************************)

WalkDone == via = "walk" /\ walk_ret.kind # "none"

\* C2 (as stated): while another process renames and creates, the handles
\* the walk holds and the object it returns were at or beneath the base at
\* some moment since the call.
C2_OpenedWasBeneath ==
    via = "walk" =>
        /\ Handle(curdir) \in wasBeneath
        /\ (walk_ret.kind = "ok" => walk_ret.fd \in wasBeneath)

\* C1: on a file system nothing else changes, whatever the path and the
\* symlinks, every handle the manual walk holds and the object it returns
\* are the base or objects beneath it.
C1_WalkStaysBeneath ==
    via = "walk" =>
        /\ Handle(curdir) \in Beneath(dirents, "base")
        /\ \A i \in 1..Len(parents) : Handle(parents[i]) \in Beneath(dirents, "base")
        /\ (walk_ret.kind = "ok" => walk_ret.fd \in Beneath(dirents, "base"))

\* A walk that went through a symlink and returned an object other than
\* the base.
C1_Witness ==
    /\ WalkDone /\ walk_ret.kind = "ok" /\ walk_ret.fd # "base"
    /\ expanded # <<>>

\* What the contract refuses first when a path is resolved from the base,
\* component by component, on a tree nothing changes:
\*   "root"    a root token without IN_ROOT
\*   "parent"  a ".." without ALLOW_PARENT_COMPONENTS
\*   "escape"  a ".." at the base without IN_ROOT
\*   "link"    a symlink that has to be read, under NO_SYMLINKS
\*   "xdev"    an object of another device under NO_XDEV
\*   "none"    nothing: the path resolves, or fails on a missing name or on
\*             a file where a directory is needed
\*   "deep"    nothing within the first SmallSymloopMax symlinks
\* follow says whether a symlink in the last position is read.
The(S) == CHOOSE x \in S : TRUE

RECURSIVE Refusal(_, _, _, _, _, _, _)
Refusal(d, lt, lf, follow, cur, toks, n) ==
    IF toks = <<>> THEN "none"
    ELSE
    LET t    == Head(toks)
        rest == Tail(toks)
        e    == Lookup(d, cur, t)
        stop(why)         == <<"stop", why>>
        go(dir, pending, seen) == <<"go", dir, pending, seen>>
        step ==
            CASE t = RootTok ->
                     IF "IN_ROOT" \in lf THEN go("base", rest, n) ELSE stop("root")
              [] t = ParentTok ->
                     IF "ALLOW_PARENT_COMPONENTS" \notin lf THEN stop("parent")
                     ELSE IF cur # "base" THEN go(KParent(d, cur), rest, n)
                     ELSE IF "IN_ROOT" \in lf THEN go("base", rest, n)
                     ELSE stop("escape")
              [] e = NoIno -> stop("none")
              [] e # NoIno /\ IType(e) = "symlink" ->
                     IF rest = <<>> /\ ~follow THEN stop("none")
                     ELSE IF "NO_SYMLINKS" \in lf THEN stop("link")
                     ELSE IF n >= SmallSymloopMax THEN stop("deep")
                     ELSE go(cur, PathTokens(lt[e]) \o rest, n + 1)
              [] OTHER ->
                     IF "NO_XDEV" \in lf /\ IDev(e) # IDev("base") THEN stop("xdev")
                     ELSE IF IType(e) = "dir" THEN go(e, rest, n)
                     ELSE stop("none")
    IN  The({ IF x[1] = "stop" THEN x[2]
              ELSE Refusal(d, lt, lf, follow, x[2], x[3], x[4]) : x \in {step} })

\* The operation opens what a symlink in the last position points to.
FollowsFinal == op \in {"open_file", "sub_dir", "write_file", "list_dir"}

Refused ==
    Refusal(dirents, linkTarget, lookup_flags, FollowsFinal, "base", PathTokens(opPath), 0)

\* C3 (as stated): without ALLOW_PARENT_COMPONENTS, a call whose path comes
\* to a ".." component, its own or one of a symlink target, fails with
\* EXDEV.
C3_ParentIsRefused ==
    (pc = "done" /\ Refused = "parent") => result = Err("EXDEV")

\* The paths the tests resolve on their fixture.
\*   "a/.."   ".."   "a/../.."   "l/../../.."   "a/b/g/.."   "/"
PathUp       == <<"a", "/", ".", ".">>
PathsEscape  ==
    { <<".", ".">>,
      <<"a", "/", ".", ".", "/", ".", ".">>,
      <<"l", "/", ".", ".", "/", ".", ".", "/", ".", ".">>,
      <<"a", "/", "b", "/", "g", "/", ".", ".">> }
PathRoot     == <<"/">>

\* A finished open of a directory, read-only or as a directory handle, on
\* the tests' fixture, symlinks allowed.
FixtureOpenDone ==
    /\ pc = "done" /\ op \in {"open_file", "sub_dir"}
    /\ linkTarget = DefaultTargets
    /\ ~Has("NO_SYMLINKS")

AtParentToken == pc = "loop" /\ components # <<>> /\ Head(components) = ParentTok

AllowParentOnly == Has("ALLOW_PARENT_COMPONENTS") /\ ~Has("IN_ROOT")

C4_Results ==
    (FixtureOpenDone /\ AllowParentOnly) =>
        /\ (opPath = PathUp => result = Ok("base"))
        /\ (opPath \in PathsEscape => result = Err("EXDEV"))

C4_Step ==
    (AtParentToken /\ AllowParentOnly) =>
        IF Handle(curdir) = "base"
        THEN pc' = "done" /\ walk_ret' = Err("EXDEV")
        ELSE pc' = "loop" /\ Handle(curdir') = KParent(dirents, curdir)

\* C4: with ALLOW_PARENT_COMPONENTS and without IN_ROOT, the walk answers
\* a ".." at the base with EXDEV and a ".." below the base by moving to the
\* directory the current one was entered from; "a/.." gives the base, and
\* "..", "a/../..", "l/../../.." (l -> a/b) and "a/b/g/.." (g -> ../..) give
\* EXDEV.
C4_ParentBeneath == []C4_Results /\ [][C4_Step]_vars

\* The walk of "a/b/g/..": two ".." taken below the base, the third refused
\* at the base.
C4_Witness ==
    /\ WalkDone /\ AllowParentOnly
    /\ opPath = <<"a", "/", "b", "/", "g", "/", ".", ".">>
    /\ expanded = <<ParentTok \o RootTok \o ParentTok>>
    /\ walk_ret = Err("EXDEV")

AtRootToken == pc = "loop" /\ components # <<>> /\ Head(components) = RootTok

C5_Results ==
    /\ (FixtureOpenDone /\ Has("IN_ROOT")) =>
          /\ (opPath = PathRoot => result = Ok("base"))
          /\ ((Has("ALLOW_PARENT_COMPONENTS") /\ opPath \in PathsEscape)
                 => result = Ok("base"))
    /\ ( /\ pc = "done" /\ op = "open_file" /\ opPath = <<"l">>
         /\ linkTarget["l"] = <<"/", "c">>
         /\ Has("IN_ROOT") /\ ~Has("NO_SYMLINKS") )
       => result = Ok("c")

C5_Step ==
    /\ (AtRootToken /\ Has("IN_ROOT")) =>
          /\ parents' = <<>> /\ curdir' = NoIno
          /\ components' = Tail(components) /\ pc' = "loop"
    /\ ( /\ AtParentToken /\ Has("IN_ROOT") /\ Has("ALLOW_PARENT_COMPONENTS")
         /\ Handle(curdir) = "base" )
       => (pc' = "loop" /\ Handle(curdir') = "base")

\* C5: with IN_ROOT, a root token empties the parent stack and puts the
\* walk back at the base, and with ALLOW_PARENT_COMPONENTS too a ".." at
\* the base stays at the base; "/", "..", "a/../..", "l/../../.." and
\* "a/b/g/.." give the base, and a symlink to "/c" opens the base's file c.
C5_InRoot == []C5_Results /\ [][C5_Step]_vars

\* The walk of a symlink to "/c": the root token came from the target, and
\* the file c of the base was opened.
C5_Witness ==
    /\ WalkDone /\ Has("IN_ROOT") /\ op = "open_file"
    /\ expanded = << <<"/", "c">> >>
    /\ walk_ret = Ok("c")

AbsoluteExpanded == \E i \in 1..Len(expanded) : HasRoot(expanded[i])

RefusedUnresolved ==
    /\ ~Has("ALLOW_PARENT_COMPONENTS") /\ HasParentComponent(opPath)
    /\ via \in {"none", "prefilter"}

C7_Walk ==
    (via = "walk" /\ Has("NO_SYMLINKS") /\ met_symlink) =>
        \/ pc = "readlink"
        \/ pc = "done" /\ walk_ret = Err("ELOOP") /\ result = Err("ELOOP")

\* C7 (as stated): under NO_SYMLINKS, a call whose path comes to a symlink
\* that has to be read fails with ELOOP.
C7_AsStated ==
    /\ C7_Walk
    /\ (pc = "done" /\ Refused = "link") => result = Err("ELOOP")

\* C7: under NO_SYMLINKS the walk that comes to a symlink, in the middle or
\* at the end of the path, returns ELOOP whatever the target; a call whose
\* path comes to a symlink that has to be read fails with ELOOP, or with
\* EXDEV when the path holds a ".." of its own without
\* ALLOW_PARENT_COMPONENTS and was refused for it before it was resolved.
C7_NoSymlinks ==
    /\ C7_Walk
    /\ (pc = "done" /\ Refused = "link") =>
          result = IF RefusedUnresolved THEN Err("EXDEV") ELSE Err("ELOOP")

\* A walk under NO_SYMLINKS whose openat answered ENOTDIR on a symlink.
C7_Witness ==
    /\ WalkDone /\ Has("NO_SYMLINKS") /\ met_symlink
    /\ Refused = "link"
    /\ open_errno = "ENOTDIR"
    /\ walk_ret = Err("ELOOP")

\* symlink_limit, as the walk should have it.
ExpectedLimit ==
    IF Has("NO_SYMLINKS") THEN 0
    ELSE IF sysconf_ret >= 0 THEN sysconf_ret
    ELSE DEFAULT_SYMLOOP_MAX

C8_Count ==
    via = "walk" =>
        /\ Len(expanded) <= ExpectedLimit
        /\ n_symlinks_found = Len(expanded)

C8_Step ==
    ( /\ pc = "readlink"
      /\ KReadlink(dirents, linkTarget, Handle(curdir), fname).kind = "ok"
      /\ Len(expanded) = ExpectedLimit )
    => /\ pc' = "done" /\ walk_ret' = Err("ELOOP")
       /\ components' = components /\ expanded' = expanded

\* C8: one walk expands at most symlink_limit symlinks (the sysconf value,
\* 40 without one, 0 under NO_SYMLINKS), and the symlink met after
\* symlink_limit expansions gives ELOOP and leaves the queue as it is.
C8_SymlinkLimit == []C8_Count /\ [][C8_Step]_vars

\* The default limit was reached.
C8_Witness ==
    /\ WalkDone /\ sysconf_ret = -1 /\ ~Has("NO_SYMLINKS")
    /\ Len(expanded) = DEFAULT_SYMLOOP_MAX
    /\ walk_ret = Err("ELOOP")

\* l -> l,  l -> k and k -> l,  l -> l/c.
CyclicTree == linkTarget["l"] \in { <<"l">>, <<"k">>, <<"l", "/", "c">> }

C9_Cycle ==
    (WalkDone /\ CyclicTree /\ met_symlink) => walk_ret = Err("ELOOP")

\* C9: every walk comes to its return, with a handle or an errno, and the
\* walk that came into a symlink cycle returns ELOOP.
C9_Terminates ==
    /\ (via = "walk") ~> (pc = "done" /\ walk_ret.kind \in {"ok", "err"})
    /\ []C9_Cycle

\* The walk of l/../../.. on l -> l/c, stopped by the default limit.
C9_Witness ==
    /\ WalkDone /\ linkTarget["l"] = <<"l", "/", "c">>
    /\ opPath = <<"l", "/", ".", ".", "/", ".", ".", "/", ".", ".">>
    /\ sysconf_ret = -1 /\ ~Has("NO_SYMLINKS")
    /\ n_symlinks_found = DEFAULT_SYMLOOP_MAX
    /\ walk_ret = Err("ELOOP")

\* C10 (as stated): for the symlink l -> ".." in the base,
\* list_dir_secure("l") fails with EXDEV with no flag and, with IN_ROOT
\* alone, yields the entries of the base, whichever way the path was
\* resolved.
C10_ListParentLink ==
    (pc = "done" /\ op = "list_dir" /\ opPath = <<"l">> /\ linkTarget["l"] = ParentTok) =>
        /\ (lookup_flags = {} => result = Err("EXDEV"))
        /\ (lookup_flags = {"IN_ROOT"} =>
              (result = Ok("base") /\ listing = Entries(dirents, "base")))

(***************************************************************************)
(* A symlink in the last position whose target ends with a slash           *)
(***************************************************************************)

\* The walk adds O_DIRECTORY when it splices such a target, and no later
\* step takes it away.
C11_Added ==
    (pc = "readlink" /\ pc' = "loop" /\ components = <<>>
        /\ EndsWithSlash(expanded'[Len(expanded')]))
    => "O_DIRECTORY" \in final_flags'

C11_Kept == (via = "walk" /\ "O_DIRECTORY" \in final_flags) => "O_DIRECTORY" \in final_flags'

\* An open of l, or of k -> l, has returned, l pointing to "c/" and c being
\* a regular file, and nothing on the way was refused by the lookup flags.
SlashLinkCall ==
    /\ pc = "done"
    /\ opPath \in {<<"l">>, <<"k">>}
    /\ linkTarget["l"] = <<"c", "/">>
    /\ Lookup(dirents, "base", N("c")) = "c"
    /\ Refused = "none"

\* The errnos of such an open: a creating exclusive open stops at the
\* symlink itself; a creating open is answered EISDIR by openat2, and
\* ENOTDIR or EINVAL by the openat of the walk.
SlashLinkErrnos ==
    IF "O_CREAT" \notin FinalFlagsOf(op) THEN {"ENOTDIR"}
    ELSE IF "O_EXCL" \in FinalFlagsOf(op) THEN {"EEXIST"}
    ELSE IF via = "openat2" THEN {"EISDIR"}
    ELSE {"ENOTDIR", "EINVAL"}

\* C11 (as stated): the walk adds O_DIRECTORY for a last symlink whose
\* target ends with a slash and keeps it, and with every set of open flags
\* the open of a symlink to "c/", c a regular file, fails with ENOTDIR.
C11_AsStated ==
    /\ [][C11_Added /\ C11_Kept]_vars
    /\ [](SlashLinkCall => result = Err("ENOTDIR"))

\* C11: the walk adds O_DIRECTORY for a last symlink whose target ends with
\* a slash and keeps it; the open of a symlink to "c/", c a regular file,
\* never opens c: it fails with ENOTDIR when the open flags do not create,
\* with EEXIST when they create exclusively, and otherwise with EISDIR on
\* openat2 and with ENOTDIR or EINVAL on the walk.
C11_SlashLink ==
    /\ [][C11_Added /\ C11_Kept]_vars
    /\ [](SlashLinkCall => (result.kind = "err" /\ result.errno \in SlashLinkErrnos))

\* The walk of write_file_secure("l") came to c with O_DIRECTORY set.
C11_Witness ==
    /\ SlashLinkCall /\ WalkDone /\ opPath = <<"l">> /\ op = "write_file"
    /\ expanded = << <<"c", "/">> >>
    /\ "O_DIRECTORY" \in final_flags
    /\ result = Err("ENOTDIR")

(***************************************************************************)
(* NO_XDEV on the manual walk                                              *)
(***************************************************************************)

\* The handles of a walk under NO_XDEV are on the device of the base, which
\* was read when the walk began.
C12_Handles ==
    (via = "walk" /\ Has("NO_XDEV")) =>
        /\ root_dev = IDev("base")
        /\ IDev(Handle(curdir)) = root_dev
        /\ \A i \in 1..Len(parents) : IDev(Handle(parents[i])) = root_dev
        /\ (walk_ret.kind = "ok" => IDev(walk_ret.fd) = root_dev)

\* The openat of the walk's next name gives an object of another device.
OpensOtherDevice ==
    /\ pc = "loop" /\ via = "walk" /\ components # <<>>
    /\ Head(components) # RootTok /\ Head(components) # ParentTok
    /\ LET r == KOpenat(dirents, linkTarget, Handle(curdir), Head(components),
                        NameOpenFlags(CurFlags(Tail(components), final_flags)))
       IN  r.kind = "ok" /\ IDev(r.fd) # root_dev

C12_Step ==
    (OpensOtherDevice /\ Has("NO_XDEV")) =>
        (pc' = "done" /\ walk_ret' = Err("EXDEV") /\ root_dev' = root_dev)

\* C12: under NO_XDEV, with or without XDEV_BIND_OK, the walk reads the
\* device of the base once, answers EXDEV as soon as an openat gives an
\* object of another device, last name or not, and so neither holds nor
\* returns a handle on another device.
C12_NoXdev == []C12_Handles /\ [][C12_Step]_vars

\* The walk under NO_XDEV | XDEV_BIND_OK refused the mount point m.
C12_Witness ==
    /\ WalkDone /\ Has("NO_XDEV") /\ Has("XDEV_BIND_OK")
    /\ opPath = <<"m", "/", ".", ".">> /\ Has("ALLOW_PARENT_COMPONENTS")
    /\ components = <<ParentTok>>
    /\ walk_ret = Err("EXDEV")

(***************************************************************************)
(* Paths without a name                                                    *)
(***************************************************************************)

\* Every component of p is ".", which the walk's queue does not take.
DroppedOnly(p) == \A i \in 1..Len(Components(p)) : Components(p)[i].kind = "CurDir"

NoOpenat == \A i \in 1..Len(trace) : trace[i][1] # "openat"

\* What opening "a" in the base answers to the call's flags, by the way the
\* call was answered.
AnswerForA ==
    IF via = "openat2"
    THEN KOpenat2(dirents, linkTarget, "base", <<"a">>, ResolveFlagsOf(lookup_flags),
                  RawHowFlags(FinalFlagsOf(op)))
    ELSE KOpenat(dirents, linkTarget, "base", <<"a">>, NameOpenFlags(FinalFlagsOf(op)))

Openats == {i \in 1..Len(trace) : trace[i][1] = "openat"}

\* Every openat was given the base, or a directory that an earlier openat
\* of the call returned.
OpenatsFromBase ==
    \A i \in Openats :
        \/ trace[i][2] = "base"
        \/ \E j \in Openats : j < i /\ trace[j][3] = trace[i][2]

Succeeded == pc = "done" /\ via \in {"walk", "openat2"} /\ walk_ret.kind = "ok"

\* The path has no name: "." components, root components and ".." only.
NoNameIn(p) == \A i \in 1..Len(Components(p)) : Components(p)[i].kind # "Normal"

\* C14 (as stated): a successful resolution of a path other than "." has
\* issued an openat (or the openat2 of the fast path) on the base.
C14_AsStated ==
    Succeeded =>
        \/ path = <<".">>
        \/ \E i \in 1..Len(trace) : trace[i][1] \in {"openat", "openat2"} /\ trace[i][2] = "base"

\* C14: a successful resolution either was of a path without a name ("."
\* and, where the flags allow them, "/" and ".." components only, or the
\* empty path), or has issued an openat (or the openat2 of the fast path)
\* on the base; and every openat was given the base or a directory that an
\* earlier openat of the resolution returned.
C14_OpenatOnBase ==
    /\ OpenatsFromBase
    /\ Succeeded =>
          \/ NoNameIn(path)
          \/ \E i \in 1..Len(trace) :
                 trace[i][1] \in {"openat", "openat2"} /\ trace[i][2] = "base"

\* The walk of a/b/g -> ../.. returned the base after three openat, the
\* first on the base.
C14_Witness ==
    /\ Succeeded /\ via = "walk" /\ opPath = <<"a", "/", "b", "/", "g">>
    /\ Cardinality(Openats) = 3
    /\ \E i \in 1..Len(trace) : trace[i] = <<"readlinkat", "b", NoIno>>
    /\ walk_ret = Ok("base")

(***************************************************************************)
(* How many openat one walk issues                                         *)
(***************************************************************************)

\* The largest number of components among the targets the walk expanded.
RECURSIVE MaxComponents(_)
MaxComponents(ts) ==
    IF ts = <<>> THEN 0
    ELSE LET h == Len(Components(Head(ts)))
             m == The({MaxComponents(Tail(ts))})
         IN  IF h > m THEN h ELSE m

\* C15: whatever the flags, the walk has expanded as many symlinks as it
\* counted, never more than its limit, and has issued at most
\* |components(path)| + follows * max_target_components + 1 openat.
C15_OpenatBound ==
    via = "walk" =>
        /\ Len(expanded) = n_symlinks_found
        /\ n_symlinks_found <= n_symlinks_max
        /\ Cardinality(Openats)
              <= Len(Components(path)) + n_symlinks_found * MaxComponents(expanded) + 1

\* The walk of k -> l -> a/b: two targets expanded, four openat.
C15_Witness ==
    /\ WalkDone /\ opPath = <<"k">> /\ walk_ret.kind = "ok"
    /\ expanded = << <<"l">>, <<"a", "/", "b">> >>
    /\ Cardinality(Openats) = 4

(***************************************************************************)
(* The split-path preprocessor: absolute and empty paths                   *)
(***************************************************************************)

\* Nothing was created, removed, renamed or linked.
FsUntouched == dirents = BaseDirents /\ linkTarget["newlink"] = <<>>

\* The errno the preprocessor has for a path before any system call:
\* EXDEV for an absolute path without IN_ROOT, ENOENT for the empty path.
UpFrontErrno(p) ==
    IF HasRoot(p) /\ ~Has("IN_ROOT") THEN "EXDEV"
    ELSE IF p = <<>> THEN "ENOENT"
    ELSE ""

\* The second path of rename_secure and hardlink_secure is refused in one
\* step, without a system call.
C16_Second ==
    (pc = "call2" /\ UpFrontErrno(opPath2) # "") =>
        /\ pc' = "done" /\ result' = Err(UpFrontErrno(opPath2))
        /\ trace' = trace /\ dirents' = dirents /\ linkTarget' = linkTarget

NamesDirectory(p) ==
    \/ Has("IN_ROOT") /\ HasRoot(p) /\ StripRootPrefix(p) = <<>>
    \/ /\ EndsWithParent(p) /\ Has("ALLOW_PARENT_COMPONENTS")
       /\ (HasRoot(p) => Has("IN_ROOT"))
       /\ walk_ret.kind = "ok"

\* C17: on a path without a final name that stands for a directory,
\* create_dir_secure and symlink_secure fail with EEXIST, remove_file_secure
\* with EISDIR and read_link_secure with EINVAL, and nothing is created or
\* removed.
C17_NoFinalName ==
    (pc = "done" /\ NamesDirectory(opPath)) =>
        /\ op \in {"create_dir", "symlink"} => (result = Err("EEXIST") /\ FsUntouched)
        /\ op = "remove_file" => (result = Err("EISDIR") /\ FsUntouched)
        /\ op = "read_link" => (result = Err("EINVAL") /\ FsUntouched)

\* remove_file_secure("a/b/..") under ALLOW_PARENT_COMPONENTS: the path was
\* resolved to a, and refused.
C17_Witness ==
    /\ pc = "done" /\ op = "remove_file"
    /\ opPath = <<"a", "/", "b", "/", ".", ".">> /\ NamesDirectory(opPath)
    /\ subdir = "a" /\ inner_name = <<>>
    /\ result = Err("EISDIR")

(***************************************************************************)
(* remove_dir_secure on a path without a final name                        *)
(***************************************************************************)

\* C18 (as stated): remove_dir_secure on a path without a final name fails
\* with EBUSY when the path stands for the base itself and with ENOTEMPTY
\* when it stands for another directory, and removes nothing.
C18_RemoveDirBase ==
    (pc = "done" /\ op = "remove_dir" /\ NamesDirectory(opPath)) =>
        /\ result = IF Handle(subdir) = "base" THEN Err("EBUSY") ELSE Err("ENOTEMPTY")
        /\ FsUntouched

(***************************************************************************)
(* rename_secure and hardlink_secure: paths without a final name           *)
(***************************************************************************)

C20_DestRefused ==
    op \in PairOps =>
        /\ pc \in {"call2", "inner"} => old # NoOld
        /\ (pc = "done" /\ old = NoOld) =>
              (result.kind # "ok" /\ result # Err("EEXIST") /\ FsUntouched)
        /\ (pc = "done" /\ old # NoOld /\ NamesDirectory(opPath2)) =>
              (result = Err("EEXIST") /\ FsUntouched)

\* rename_secure("c", "a/..") under ALLOW_PARENT_COMPONENTS: the second path
\* was resolved to the base.
C20_Witness ==
    /\ pc = "done" /\ op = "rename"
    /\ opPath = <<"c">> /\ opPath2 = <<"a", "/", ".", ".">>
    /\ old = [subdir |-> NoIno, fname |-> <<"c">>]
    /\ walk_ret = Ok("base") /\ subdir = "base" /\ inner_name = <<>>
    /\ result = Err("EEXIST")

(***************************************************************************)
(* hardlink_secure and rename_secure: where the new name goes              *)
(***************************************************************************)

\* The directories of the base when the call was made.
InBase == Beneath(BaseDirents, "base")

\* hardlink_secure("c", "l/n") with l -> "..": a regular file of the base
\* linked under a name reached through a symlink to the parent directory
\* (the test's "a/b" and "s/c").
LinkThroughParent ==
    /\ op = "hardlink" /\ opPath = <<"c">> /\ opPath2 = <<"l", "/", "n">>
    /\ linkTarget["l"] = <<".", ".">>

\* C21: hardlink_secure and rename_secure add and remove names only in
\* directories of the base.  With the symlink l -> ".." in the base,
\* hardlink_secure("c", "l/n") fails with EXDEV and changes nothing under the
\* empty flags; under IN_ROOT | ALLOW_PARENT_COMPONENTS it succeeds and the
\* new name n is in the base directory itself.
C21_DestInBase ==
    op \in PairOps =>
        /\ \A e \in (dirents \ BaseDirents) \cup (BaseDirents \ dirents) : e[1] \in InBase
        /\ (pc = "done" /\ LinkThroughParent /\ lookup_flags = {}) =>
              (result = Err("EXDEV") /\ FsUntouched)
        /\ (pc = "done" /\ LinkThroughParent
              /\ lookup_flags = {"IN_ROOT", "ALLOW_PARENT_COMPONENTS"}) =>
              /\ result = Ok("c")
              /\ dirents = BaseDirents \cup {<<"base", N("n"), "c">>}

\* The link was made under IN_ROOT | ALLOW_PARENT_COMPONENTS by the manual
\* walk, which read the symlink and stayed at the base on "..".
C21_Witness ==
    /\ pc = "done" /\ LinkThroughParent
    /\ lookup_flags = {"IN_ROOT", "ALLOW_PARENT_COMPONENTS"}
    /\ via = "walk" /\ expanded = << <<".", ".">> >>
    /\ result = Ok("c")
    /\ <<"base", N("n"), "c">> \in dirents

(***************************************************************************)
(* A separator after the final name                                        *)
(***************************************************************************)

\* The call has ended, its path ends with a separator, and the final name the
\* preprocessor returned is a regular file of the directory it returned.
SlashOnFile ==
    /\ pc = "done" /\ op \in {"metadata", "remove_file"}
    /\ EndsWithSlash(opPath)
    /\ inner_name # <<>>
    /\ (via = "none" \/ walk_ret.kind = "ok")
    /\ Lookup(BaseDirents, Handle(subdir), inner_name) \in Files

\* C22: metadata_secure and remove_file_secure on a path that ends with a
\* separator after the name of a regular file ("c/") fail with ENOTDIR, and
\* the file is not removed.
C22_SlashKept ==
    SlashOnFile => (result = Err("ENOTDIR") /\ FsUntouched)

(***************************************************************************)
(* new_file_secure                                                         *)
(***************************************************************************)

\* The directory reached from dir through the names toks, each of them a
\* directory of the fixture; NoIno when one of them is not.
RECURSIVE DescendPlain(_, _)
DescendPlain(dir, toks) ==
    IF toks = <<>> THEN dir
    ELSE LET e == Lookup(BaseDirents, dir, Head(toks))
         IN  IF e \in Dirs THEN DescendPlain(e, Tail(toks)) ELSE NoIno

\* The parent directory of the final name of p when it is reached through
\* directories only (after a root token that IN_ROOT allows), else NoIno.
PlainParent(p) ==
    LET toks == PathTokens(p)
        rel  == IF toks # <<>> /\ Head(toks) = RootTok THEN Tail(toks) ELSE toks
    IN  IF toks = <<>> \/ rel = <<>> THEN NoIno
        ELSE IF Head(toks) = RootTok /\ ~Has("IN_ROOT") THEN NoIno
        ELSE IF \E i \in 1..Len(rel) : rel[i] \in {RootTok, ParentTok} THEN NoIno
        ELSE DescendPlain("base", SubSeq(rel, 1, Len(rel) - 1))

LastName(p) == PathTokens(p)[Len(PathTokens(p))]

\* new_file_secure on a path whose final name was in its parent directory.
NameExisted(p) ==
    /\ PlainParent(p) # NoIno
    /\ Lookup(BaseDirents, PlainParent(p), LastName(p)) # NoIno

\* C23: new_file_secure fails with EEXIST when the final name exists in its
\* parent directory, as a file, a directory or a symlink, whatever the
\* flags; when it succeeds, it has created the name it returns, which did
\* not exist before.
C23_NewFileAtomic ==
    (pc = "done" /\ op = "new_file") =>
        /\ NameExisted(opPath) => result = Err("EEXIST")
        /\ result.kind = "ok" =>
              /\ result.creat # <<>>
              /\ Lookup(BaseDirents, result.creat[1], result.creat[2]) = NoIno
              /\ <<result.creat[1], result.creat[2], result.fd>> \in dirents

(***************************************************************************)
(* readlinkat after a failed open                                          *)
(***************************************************************************)

\* The readlinkat calls of the walk.
Readlinks == {i \in 1..Len(trace) : trace[i][1] = "readlinkat"}

\* The walk returned from the branch of a readlinkat: one more readlinkat
\* than symlinks expanded.  Nothing has changed since that readlinkat.
ReturnedAtReadlink ==
    pc = "done" /\ via = "walk" /\ Cardinality(Readlinks) = Len(expanded) + 1

\* What readlinkat answered, when the walk returned at it.
LastReadlink == KReadlink(dirents, linkTarget, Handle(curdir), fname)

\* C24: when the walk returns after a readlinkat that failed, it returns
\* the open's ENOTDIR if readlinkat gave EINVAL after ENOTDIR, EAGAIN if
\* readlinkat gave EINVAL after ELOOP, and readlinkat's errno otherwise;
\* the walk returns EAGAIN in no other case.
C24_ReadlinkErrors ==
    /\ ReturnedAtReadlink =>
          /\ (LastReadlink.errno = "EINVAL" /\ open_errno = "ENOTDIR")
                => walk_ret = Err("ENOTDIR")
          /\ (LastReadlink.errno = "EINVAL" /\ open_errno = "ELOOP")
                => walk_ret = Err("EAGAIN")
          /\ (LastReadlink.kind = "err" /\ LastReadlink.errno # "EINVAL")
                => walk_ret = Err(LastReadlink.errno)
    /\ (via = "walk" /\ walk_ret = Err("EAGAIN")) =>
          /\ ReturnedAtReadlink
          /\ open_errno = "ELOOP" /\ LastReadlink.errno = "EINVAL"

\* open_file_secure("l"): the open of the symlink l gave ELOOP, the file c
\* was then renamed over l, and readlinkat gave EINVAL.
C24_Witness ==
    /\ pc = "done" /\ opPath = <<"l">> /\ via = "walk"
    /\ open_errno = "ELOOP" /\ fname = <<"l">>
    /\ Lookup(dirents, "base", N("l")) = "c"
    /\ result = Err("EAGAIN")

(***************************************************************************)
(* The descriptors of the walk                                             *)
(***************************************************************************)

\* How many descriptors on the object i the walk has opened (openat, or the
\* duplicate of the base it returns) and how many it has closed.
Opened(i) ==
    Cardinality({k \in 1..Len(trace) :
                    \/ trace[k][1] = "openat" /\ trace[k][3] = i
                    \/ trace[k][1] = "dup" /\ trace[k][2] = i})

Closed(i) == Cardinality({k \in 1..Len(trace) : trace[k][1] = "close" /\ trace[k][2] = i})

WalkReturned == via = "walk" /\ walk_ret # NoResult

\* C25: once the walk has returned, with success or with any error, every
\* descriptor it opened is closed but the one it returned; it never closes
\* a descriptor it did not open, the caller's base least of all.
C25_Released ==
    /\ \A i \in Inodes : Closed(i) <= Opened(i)
    /\ Closed("base") = 0
    /\ WalkReturned =>
          \A i \in Inodes :
              Opened(i) - Closed(i) = IF walk_ret.kind = "ok" /\ walk_ret.fd = i THEN 1 ELSE 0

\* open_file_secure("a/b/g", ALLOW_PARENT_COMPONENTS | NO_SYMLINKS): the
\* walk holds a on the stack and b as current when the symlink limit stops
\* it; both are closed.
C25_Witness ==
    /\ pc = "done" /\ op = "open_file" /\ opPath = <<"a", "/", "b", "/", "g">>
    /\ lookup_flags = {"ALLOW_PARENT_COMPONENTS", "NO_SYMLINKS"}
    /\ via = "walk" /\ parents = <<NoIno, "a">> /\ curdir = "b"
    /\ result = Err("ELOOP")
    /\ Closed("a") = 1 /\ Closed("b") = 1

(***************************************************************************)
(* The parent token                                                        *)
(***************************************************************************)

\* The step takes a ".." from the queue under ALLOW_PARENT_COMPONENTS.
ParentTokenStep ==
    /\ AtParentToken /\ Has("ALLOW_PARENT_COMPONENTS")
    /\ components' = Tail(components)

\* The step enters a directory: the walk opened it and made it current.
EntersDirectory ==
    /\ pc = "loop" /\ pc' = "loop" /\ Len(trace') > Len(trace)
    /\ trace'[Len(trace) + 1][1] = "openat"
    /\ curdir' = trace'[Len(trace) + 1][3]

\* The system calls the step adds.
NewCalls == {trace'[k][1] : k \in (Len(trace) + 1)..Len(trace')}

InWalk == pc \in {"loop", "readlink"}

\* The descriptors the walk has opened and not closed.
HeldCount ==
    Cardinality({k \in 1..Len(trace) :
                    \/ trace[k][1] = "openat" /\ trace[k][3] # NoIno
                    \/ trace[k][1] = "dup"})
    - Cardinality({k \in 1..Len(trace) : trace[k][1] = "close"})

\* How many directories below the base a directory of the fixture is.
RECURSIVE Depth(_)
Depth(dir) ==
    IF dir = "base" THEN 0
    ELSE IF dir = "root" THEN -1
    ELSE 1 + Depth(KParent(BaseDirents, dir))

\* C27: between the steps of the walk, without ALLOW_PARENT_COMPONENTS the
\* stack is empty and at most one descriptor is held, the current one; with
\* it, the stack is as long as current is deep below the base, its bottom
\* entry is the None that stands for the base, current is the base exactly
\* when the stack is empty, and one descriptor is held per entry.
C27_Stack ==
    InWalk =>
        /\ ~Has("ALLOW_PARENT_COMPONENTS") =>
              /\ parents = <<>>
              /\ HeldCount = IF curdir = NoIno THEN 0 ELSE 1
        /\ Has("ALLOW_PARENT_COMPONENTS") =>
              /\ Len(parents) = Depth(Handle(curdir))
              /\ parents # <<>> => parents[1] = NoIno
              /\ \A i \in 2..Len(parents) : parents[i] # NoIno
              /\ (curdir = NoIno) <=> (parents = <<>>)
              /\ HeldCount = Len(parents)

\* Two directories down under ALLOW_PARENT_COMPONENTS.
C27_Witness ==
    /\ InWalk /\ Has("ALLOW_PARENT_COMPONENTS")
    /\ parents = <<NoIno, "a">> /\ curdir = "b"
    /\ HeldCount = 2

(***************************************************************************)
(* The expansion of a symlink                                              *)
(***************************************************************************)

\* The step expands a symlink.
ExpandsLink == pc = "readlink" /\ Len(expanded') = Len(expanded) + 1

\* The tokens of a target, left to right: the root when it is absolute,
\* then its segments but the "." ones.
TargetTokens(t) ==
    (IF HasRoot(t) THEN <<RootTok>> ELSE <<>>)
    \o SelectSeq(Segments(t), LAMBDA x : x # CurTok)

\* C28: the step that expands a symlink reads its target in the current
\* directory and puts the target's tokens, in their order and without the
\* "." ones, in front of the pending components; it changes neither the
\* current handle nor the stack.
C28_Splice ==
    [][ExpandsLink =>
          LET target == KReadlink(dirents, linkTarget, Handle(curdir), fname).target
          IN  /\ expanded' = Append(expanded, target)
              /\ components' = TargetTokens(target) \o components
              /\ UNCHANGED <<curdir, parents>>
      ]_vars

\* open_file_secure("l/n") with l -> "../c": the queue is "..", "c", "n".
C28_Witness ==
    /\ pc = "loop" /\ opPath = <<"l", "/", "n">>
    /\ expanded = << <<".", ".", "/", "c">> >>
    /\ components = <<ParentTok, N("c"), N("n")>>
    /\ curdir = NoIno /\ parents = <<>>

(***************************************************************************)
(* The open flags of the walk                                              *)
(***************************************************************************)

\* The step issues an openat; its flags.
IssuesOpenat ==
    /\ pc = "loop" /\ Len(trace') > Len(trace)
    /\ trace'[Len(trace) + 1][1] = "openat"

IssuedFlags == trace'[Len(trace) + 1][4]

\* C29: every openat of the walk has O_NOFOLLOW and O_CLOEXEC; the open of
\* a name with components pending after it has, besides them, the interior
\* flags O_PATH and O_DIRECTORY and nothing else, the open of the last
\* pending name has the caller's flags; a file is created only by the open
\* of a last pending name.
C29_OpenFlags ==
    /\ [](\A k \in 1..Len(trace) :
             trace[k][1] = "openat" => {"O_NOFOLLOW", "O_CLOEXEC"} \subseteq trace[k][4])
    /\ [][IssuesOpenat =>
             /\ IssuedFlags = (IF Tail(components) = <<>> THEN final_flags
                               ELSE {"O_PATH", "O_DIRECTORY"})
                              \cup {"O_NOFOLLOW", "O_CLOEXEC"}
             /\ (dirents' # dirents) => (Tail(components) = <<>>)
          ]_vars

\* new_file_secure("a/n") on the manual walk: a was opened with the interior
\* flags, n created with the caller's.
C29_Witness ==
    /\ pc = "done" /\ op = "new_file" /\ opPath = <<"a", "/", "n">> /\ via = "walk"
    /\ \E j, k \in 1..Len(trace) :
          /\ j < k
          /\ trace[j] = <<"openat", "base", "a",
                          {"O_PATH", "O_DIRECTORY", "O_NOFOLLOW", "O_CLOEXEC"}>>
          /\ trace[k] = <<"openat", "a", "new",
                          {"O_CREAT", "O_EXCL", "O_WRONLY", "O_NOFOLLOW", "O_CLOEXEC"}>>
    /\ <<"a", N("n"), "new">> \in dirents

(***************************************************************************)
(* The fast path and XDEV_BIND_OK                                          *)
(***************************************************************************)

Openat2s == {i \in 1..Len(trace) : trace[i][1] = "openat2"}

BothXdevFlags == Has("NO_XDEV") /\ Has("XDEV_BIND_OK")

\* open_file_secure has returned.
ResolverReturned == via # "none" /\ walk_ret # NoResult

\* openat2 comes before every openat.
Openat2First == \A i \in Openat2s, j \in Openats : i < j

\* The decisions of the manual walk that read the lookup flags are the same
\* with and without XDEV_BIND_OK.
BindOkUnread ==
    LET lf == lookup_flags
        nf == lookup_flags \ {"XDEV_BIND_OK"}
    IN  /\ RootAllowed(lf) = RootAllowed(nf)
        /\ ParentStep(lf, parents) = ParentStep(nf, parents)
        /\ PushParent(lf, parents, curdir) = PushParent(nf, parents, curdir)
        /\ \A sc \in SysconfResults : SymlinkLimit(lf, sc) = SymlinkLimit(nf, sc)
        /\ \A i \in Inodes : DevMismatch(lf, i, root_dev) = DevMismatch(nf, i, root_dev)

\* C30 as stated: openat2 is issued exactly when NO_XDEV and XDEV_BIND_OK
\* are not both set.
C30_AsStated ==
    /\ Openat2First
    /\ ResolverReturned => ((Openat2s # {}) <=> ~BothXdevFlags)
    /\ BothXdevFlags => (via \in {"none", "walk"} /\ Openat2s = {})
    /\ BindOkUnread

\* C30: openat2 comes before every openat; it is issued exactly when
\* NO_XDEV and XDEV_BIND_OK are not both set and the path is not refused by
\* the ".." pre-filter (a ".." component without ALLOW_PARENT_COMPONENTS),
\* which returns EXDEV without any system call; with both flags set only
\* the manual walk runs, and XDEV_BIND_OK changes nothing else in it.
C30_FastPath ==
    /\ Openat2First
    /\ ResolverReturned =>
          /\ (Openat2s # {}) <=>
                (~BothXdevFlags
                 /\ ~(~Has("ALLOW_PARENT_COMPONENTS") /\ HasParentComponent(path)))
          /\ via = "prefilter" => (trace = <<>> /\ walk_ret = Err("EXDEV"))
          /\ Cardinality(Openat2s) <= 1
    /\ BothXdevFlags => (via \in {"none", "walk"} /\ Openat2s = {})
    /\ BindOkUnread

\* open_file_secure("a/b", NO_XDEV | XDEV_BIND_OK): opened by the manual
\* walk, without openat2.
C30_Witness ==
    /\ pc = "done" /\ op = "open_file" /\ opPath = <<"a", "/", "b">>
    /\ lookup_flags = {"NO_XDEV", "XDEV_BIND_OK"}
    /\ via = "walk" /\ Openat2s = {} /\ Cardinality(Openats) = 2
    /\ result = Ok("b")

(***************************************************************************)
(* C31: the resolve bits of the open_how given to openat2 are decided by   *)
(* NO_SYMLINKS, NO_XDEV and IN_ROOT alone.                                  *)
(***************************************************************************)

\* openat2 was called.
Openat2Called == raw_how # NoRawHow

\* C31: whenever openat2 was called, the resolve field of its open_how has
\* RESOLVE_NO_MAGICLINKS, RESOLVE_NO_SYMLINKS iff NO_SYMLINKS, RESOLVE_NO_XDEV
\* iff NO_XDEV, RESOLVE_IN_ROOT iff IN_ROOT and RESOLVE_BENEATH iff not
\* IN_ROOT, and no other bit: ALLOW_PARENT_COMPONENTS and XDEV_BIND_OK add
\* nothing.
C31_ResolveBits ==
    Openat2Called =>
        /\ "NO_MAGICLINKS" \in raw_how.resolve
        /\ ("NO_SYMLINKS" \in raw_how.resolve) <=> ("NO_SYMLINKS" \in lookup_flags)
        /\ ("NO_XDEV" \in raw_how.resolve) <=> ("NO_XDEV" \in lookup_flags)
        /\ ("IN_ROOT" \in raw_how.resolve) <=> ("IN_ROOT" \in lookup_flags)
        /\ ("BENEATH" \in raw_how.resolve) <=> ("IN_ROOT" \notin lookup_flags)
        /\ raw_how.resolve \subseteq {"NO_XDEV", "NO_MAGICLINKS", "NO_SYMLINKS", "BENEATH", "IN_ROOT"}
        /\ raw_how.resolve = open_how.resolve_flags

\* openat2 was called under IN_ROOT, ALLOW_PARENT_COMPONENTS and XDEV_BIND_OK
\* with the two bits RESOLVE_NO_MAGICLINKS and RESOLVE_IN_ROOT.
C31_Witness ==
    /\ Openat2Called
    /\ lookup_flags = {"IN_ROOT", "ALLOW_PARENT_COMPONENTS", "XDEV_BIND_OK"}
    /\ raw_how.resolve = {"NO_MAGICLINKS", "IN_ROOT"}

(***************************************************************************)
(* C32: what follows the answer of openat2.                                *)
(***************************************************************************)

\* The errnos of openat2 that the claim names.
NoOpenat2Errnos == {"ENOSYS", "E2BIG"}

\* After each answer of openat2: on ENOSYS or E2BIG the resolver has not
\* returned it, and what it returns comes from the manual walk; any other
\* answer is what the resolver returned, and no openat was issued.
C32_Answers ==
    \A i \in Openat2s :
        IF trace[i][4] \in NoOpenat2Errnos
        THEN /\ via # "openat2"
             /\ ResolverReturned => via = "walk"
        ELSE /\ via = "openat2" /\ ResolverReturned
             /\ Openats = {}
             /\ trace[i][4] # "" => walk_ret = Err(trace[i][4])
             /\ trace[i][4] = "" => (walk_ret.kind = "ok" /\ walk_ret.fd = trace[i][3])

\* A step in which openat2 answers ENOSYS or E2BIG leaves the arguments as
\* they are and goes on to the manual walk, which starts from the path.
C32_Step ==
    /\ (/\ Len(trace') = Len(trace) + 1
        /\ trace'[Len(trace')][1] = "openat2"
        /\ trace'[Len(trace')][4] \in NoOpenat2Errnos)
       => (pc' = "walk_init" /\ UNCHANGED <<argVars, callVars, fsVars>>)
    /\ (pc = "walk_init" /\ pc' # pc) => (via' = "walk" /\ components' = PathTokens(path))

\* C32: if openat2 fails with ENOSYS or E2BIG the manual walk runs on the
\* same arguments and its result is returned; any other errno of openat2 is
\* returned unchanged, and a descriptor it gives is returned, without any
\* openat.
C32_Fallback == []C32_Answers /\ [][C32_Step]_vars

\* open_file_secure("c") where openat2 answered E2BIG: the manual walk opened c.
C32_Witness ==
    /\ pc = "done" /\ op = "open_file" /\ opPath = <<"c">>
    /\ trace # <<>> /\ trace[1] = <<"openat2", "base", NoIno, "E2BIG">>
    /\ via = "walk" /\ Openats # {}
    /\ result = Ok("c")

(***************************************************************************)
(* C33: the manual walk against the fast path.                             *)
(***************************************************************************)

\* What the fast path answers to a call of an open wrapper on the fixture:
\* the ".." pre-filter, then openat2 with the derived resolve flags.
FastOutcome ==
    IF PreFilterRejects(lookup_flags, opPath) THEN Err("EXDEV")
    ELSE KOpenat2(BaseDirents, linkTarget, "base", opPath, ResolveFlagsOf(lookup_flags),
                  RawHowFlags(FinalFlagsOf(op)))

\* Two outcomes are the same: the same object, or the same errno.
SameOutcome(r, q) == r.kind = q.kind /\ r.fd = q.fd /\ r.errno = q.errno

\* C33: when the manual walk has answered a call of an open wrapper, its
\* outcome is the one the fast path gives for the same file system, path,
\* lookup flags, open flags and mode.
C33_WalkAsFastPath ==
    (pc = "done" /\ op \in OpenOps \ {"list_dir"} /\ via = "walk")
    => SameOutcome(walk_ret, FastOutcome)

(***************************************************************************)
(* C34: a walk that ends without an open of a final name.                  *)
(***************************************************************************)

\* The queue of the walk is empty and no open has returned: the last token
\* was consumed without an open of a final name.
QueueConsumed == pc = "loop" /\ components = <<>>

\* The files that existed before the call and that an open of the call
\* truncated.
Truncated ==
    {trace[i][3] : i \in {k \in Openats : /\ trace[k][3] \notin {NoIno, "new"}
                                          /\ IType(trace[k][3]) = "file"
                                          /\ "O_TRUNC" \in trace[k][4]
                                          /\ "O_PATH" \notin trace[k][4]}}

\* The entries the call has added to the file system.
CreatedEntries == {e \in dirents : e[3] = "new"}

\* When the queue is consumed nothing has been created or truncated, and the
\* next step returns the handle of the current directory (a duplicate of the
\* base's when the walk stands at the base), with no other system call.
C34_Step ==
    QueueConsumed =>
        /\ walk_ret' = Ok(Handle(curdir))
        /\ UNCHANGED fsVars
        /\ trace' = (IF curdir = NoIno THEN Append(trace, <<"dup", "base", NoIno>>) ELSE trace)
                    \o Closes(Owned(NoIno, parents))

C35_ErrorLeavesFiles ==
    (pc = "done" /\ op \in OpenOps \ {"list_dir"} /\ via = "walk" /\ result.kind = "err")
    => (CreatedEntries = {} /\ Truncated = {})

(***************************************************************************)
(* C36: where EAGAIN comes from.                                           *)
(***************************************************************************)

\* The resolver returns EAGAIN in this step.
ReturnsEagain == walk_ret = NoResult /\ walk_ret' = Err("EAGAIN")

\* The openat of this step reports ELOOP: the name it was given is a symlink.
EloopIsSymlink ==
    (pc = "loop" /\ pc' = "readlink" /\ open_errno' = "ELOOP")
    => IType(Lookup(dirents, Handle(curdir), Head(components))) = "symlink"

\* The step is the readlinkat that follows an openat which reported ELOOP,
\* and the name is no longer a symlink: it changed type in between.
TypeChanged ==
    /\ pc = "readlink" /\ open_errno = "ELOOP"
    /\ trace[Len(trace)][1] = "openat"
    /\ Lookup(dirents, Handle(curdir), fname) # NoIno
    /\ IType(Lookup(dirents, Handle(curdir), fname)) # "symlink"

\* The step is an openat2 that answers EAGAIN itself, while another process
\* renames.
Openat2Eagain ==
    /\ pc = "open_file_secure" /\ via' = "openat2"
    /\ trace' = Append(trace, <<"openat2", "base", NoIno, "EAGAIN">>)
    /\ dirents' # dirents

\* C36 as stated: EAGAIN is returned only from the readlinkat after an
\* openat that reported ELOOP on a name that has changed type since.
C36_AsStated ==
    /\ [](walk_ret = Err("EAGAIN") => dirents # BaseDirents)
    /\ [][EloopIsSymlink /\ (ReturnsEagain => TypeChanged)]_vars

\* C36: in a file system that no other process modifies the resolver never
\* returns EAGAIN.  It returns EAGAIN when a name changed type between the
\* openat of the manual walk that reported ELOOP and the readlinkat that
\* follows it, and when openat2 itself answers EAGAIN, which is returned
\* unchanged; in no other case.
C36_Eagain ==
    /\ [](walk_ret = Err("EAGAIN") => dirents # BaseDirents)
    /\ [][EloopIsSymlink /\ (ReturnsEagain => (TypeChanged \/ Openat2Eagain))]_vars

\* open_file_secure("k"): the openat of the symlink k reported ELOOP, a file
\* was renamed over k, and the resolver returned EAGAIN.
C36_Witness ==
    /\ pc = "done" /\ op = "open_file" /\ opPath = <<"k">> /\ via = "walk"
    /\ fname = <<"k">> /\ open_errno = "ELOOP"
    /\ IType(Lookup(dirents, "base", N("k"))) = "file"
    /\ walk_ret = Err("EAGAIN")

(***************************************************************************)
(* C37: the debug assertions of prepare_inner_operation.                   *)
(***************************************************************************)

\* C37: no call of a split-path operation stops at a debug assertion of
\* prepare_inner_operation: whenever the path left after the `/` prefix is
\* stripped is not empty, it has a final file name and does not end in
\* `..`, or it has none and ends in `..`.
C37_AssertionsHold ==
    (pc = "done" /\ op \in SplitOps /\ PrepareInner(lookup_flags, opPath).kind # "err")
        => result # Panic

(***************************************************************************)
(* C38: the RawOpenHow made of an OpenHow.                                 *)
(***************************************************************************)

\* The OpenHow values a caller of openat2::openat2 can build: open flags
\* (with the two bits of O_TMPFILE apart), an optional mode, resolve bits.
HowFlags == SUBSET {"O_WRONLY", "O_CREAT", "O_DIRECTORY", "__O_TMPFILE", "O_CLOEXEC"}
HowModes == {<<>>, <<0>>, <<448>>, <<511>>}
HowResolve == SUBSET {"NO_XDEV", "NO_MAGICLINKS", "NO_SYMLINKS", "BENEATH", "IN_ROOT"}

InitHow ==
    /\ open_how \in [flags : HowFlags, mode : HowModes, resolve_flags : HowResolve]
    /\ raw_how = NoRawHow
    /\ pc = "openat2_sys"
    /\ opPath = <<>> /\ linkTarget = DefaultTargets /\ opPath2 = <<>>
    /\ old = NoOld /\ op = "open_file" /\ lookup_flags = {}
    /\ dirents = BaseDirents /\ wasBeneath = Beneath(BaseDirents, "base")
    /\ path = <<>> /\ final_flags = {} /\ mode = 0
    /\ root_dev = "any" /\ n_symlinks_found = 0 /\ n_symlinks_max = 0 /\ sysconf_ret = -1
    /\ components = <<>> /\ curdir = NoIno /\ parents = <<>>
    /\ fname = <<>> /\ open_errno = "" /\ met_symlink = FALSE /\ expanded = <<>>
    /\ via = "none" /\ walk_ret = NoResult
    /\ subdir = NoIno /\ inner_name = <<>>
    /\ result = NoResult /\ listing = {}
    /\ trace = <<>>

\* openat2_sys, line 73: `let mut raw_how: RawOpenHow = how.into();`
IntoRawOpenHow ==
    /\ pc = "openat2_sys"
    /\ raw_how' = RawOpenHowFrom(open_how)
    /\ pc' = "syscall"
    /\ UNCHANGED <<fsVars, callVars, argVars, open_how, walkVars, via, retVars, inner_name,
                   listing, trace>>

NextHow == IntoRawOpenHow

SpecHow == InitHow /\ [][NextHow]_vars

\* C38: the raw open_how has O_CLOEXEC in its flags and otherwise the open
\* flags it was given, the resolve bits it was given, and as mode the
\* explicit mode when there is one, else 0o777 when the flags contain
\* O_CREAT or all of O_TMPFILE, else 0.
C38_RawOpenHow ==
    pc = "syscall" =>
        /\ "O_CLOEXEC" \in raw_how.flags
        /\ raw_how.flags \ {"O_CLOEXEC"} = open_how.flags \ {"O_CLOEXEC"}
        /\ raw_how.resolve = open_how.resolve_flags
        /\ open_how.mode # <<>> => raw_how.mode = open_how.mode[1]
        /\ (open_how.mode = <<>> /\ "O_CREAT" \in open_how.flags) => raw_how.mode = 511
        /\ (open_how.mode = <<>> /\ {"__O_TMPFILE", "O_DIRECTORY"} \subseteq open_how.flags)
               => raw_how.mode = 511
        /\ ( /\ open_how.mode = <<>> /\ "O_CREAT" \notin open_how.flags
             /\ ~({"__O_TMPFILE", "O_DIRECTORY"} \subseteq open_how.flags) )
               => raw_how.mode = 0

\* An OpenHow with O_CREAT and the explicit mode 0o700, without O_CLOEXEC,
\* was made raw: mode 0o700 and O_CLOEXEC.
C38_Witness ==
    /\ pc = "syscall"
    /\ open_how.mode = <<448>> /\ "O_CREAT" \in open_how.flags
    /\ "O_CLOEXEC" \notin open_how.flags
    /\ open_how.resolve_flags = {"NO_MAGICLINKS", "BENEATH"}
    /\ raw_how.mode = 448 /\ "O_CLOEXEC" \in raw_how.flags

(***************************************************************************)
(* open.rs: the walk that always stays in the root                         *)
(***************************************************************************)

\* open.rs lines 52-68: the OpenHow, always with RESOLVE_IN_ROOT.
OpenRsHow(ff, m, lf) ==
    [flags |-> ff, mode |-> <<m>>,
     resolve_flags |-> {"NO_MAGICLINKS", "IN_ROOT"}
                       \cup (IF "NO_SYMLINKS" \in lf THEN {"NO_SYMLINKS"} ELSE {})
                       \cup (IF "NO_XDEV" \in lf THEN {"NO_XDEV"} ELSE {})]

\* open.rs lines 48-79: openat2 answers, or the walk follows.
OpenRsOpenat2 ==
    /\ pc = "open_file_secure"
    /\ UseFastPath(lookup_flags)
    /\ LET how == OpenRsHow(final_flags, mode, lookup_flags)
       IN  \E r \in KOpenat2Answers(dirents, linkTarget, "base", path, RawOpenHowFrom(how)) :
              /\ open_how' = how
              /\ raw_how' = RawOpenHowFrom(how)
              /\ trace' = Append(trace, <<"openat2", "base", r.fd, r.errno>>)
              /\ IF FallsBack(r)
                 THEN /\ pc' = "walk_init"
                      /\ UNCHANGED <<fsVars, via, retVars>>
                 ELSE /\ AfterSyscall(r)
                      /\ WalkReturn(r)
                      /\ via' = "openat2"
    /\ UNCHANGED <<callVars, argVars, walkVars, inner_name, listing>>

\* open.rs lines 81-103.
OpenRsInit ==
    /\ \/ pc = "walk_init"
       \/ pc = "open_file_secure" /\ ~UseFastPath(lookup_flags)
    /\ root_dev' = IF Has("NO_XDEV") THEN IDev("base") ELSE "any"
    /\ \E sc \in SysconfResults :
          /\ sysconf_ret' = sc
          /\ n_symlinks_max' = SymlinkLimit(lookup_flags, sc)
    /\ n_symlinks_found' = 0
    /\ curdir' = NoIno
    /\ parents' = <<>>
    /\ components' = PathTokens(path)
    /\ via' = "walk"
    /\ pc' = "loop"
    /\ UNCHANGED <<fsVars, callVars, howVars, argVars, fname, open_errno, met_symlink, expanded,
                   retVars, inner_name, listing>>
    /\ trace' = IF Has("NO_XDEV") THEN Append(trace, <<"fstat", "base", NoIno>>) ELSE trace

\* open.rs lines 106-108: "/" empties the stack and goes back to the root.
OpenRsRoot ==
    /\ pc = "loop" /\ components # <<>> /\ Head(components) = RootTok
    /\ components' = Tail(components)
    /\ parents' = <<>>
    /\ curdir' = NoIno
    /\ trace' = trace \o Closes(parents) \o Closes(Owned(curdir, <<>>))
    /\ UNCHANGED <<fsVars, callVars, howVars, argVars, pc, root_dev, n_symlinks_found,
                   n_symlinks_max, sysconf_ret, fname, open_errno, met_symlink, expanded, via,
                   retVars, inner_name, listing>>

\* A faulty line 137 that keeps a handle for the root as well.
OpenRsPushAlways(stack, cur) == Append(stack, cur)

\* open.rs lines 136-141: the directory that was current is kept on the
\* stack, unless it is the root (curdir is None).
OpenRsPush(stack, cur) == IF cur # NoIno THEN Append(stack, cur) ELSE stack

\* A faulty line 110 that stays where it is when the stack is empty.
OpenRsPoppedOrStay(stack, cur) == IF stack = <<>> THEN cur ELSE stack[Len(stack)]

\* open.rs line 110, parents.pop(): the handle pushed last, None when the
\* stack is empty.
OpenRsPopped(stack, cur) == IF stack = <<>> THEN NoIno ELSE stack[Len(stack)]

\* open.rs lines 109-110: "..".
OpenRsParent ==
    /\ pc = "loop" /\ components # <<>> /\ Head(components) = ParentTok
    /\ components' = Tail(components)
    /\ curdir' = OpenRsPopped(parents, curdir)
    /\ parents' = IF parents = <<>> THEN <<>> ELSE SubSeq(parents, 1, Len(parents) - 1)
    /\ trace' = trace \o Closes(Owned(curdir, <<>>))
    /\ UNCHANGED <<fsVars, callVars, howVars, argVars, pc, root_dev, n_symlinks_found,
                   n_symlinks_max, sysconf_ret, fname, open_errno, met_symlink, expanded, via,
                   retVars, inner_name, listing>>

\* open.rs lines 111-149, 151-170 and 228-230: openat on a name.
OpenRsName ==
    /\ pc = "loop" /\ components # <<>>
    /\ Head(components) # RootTok /\ Head(components) # ParentTok
    /\ LET name == Head(components)
           rest == Tail(components)
           dir  == Handle(curdir)
       IN  \E r \in KOpenatAnswers(dirents, linkTarget, dir, name,
                                   NameOpenFlags(CurFlags(rest, final_flags))) :
           LET kind == IF r.kind = "ok"
                       THEN (IF DevMismatch(lookup_flags, r.fd, root_dev) THEN "xdev"
                             ELSE IF rest = <<>> THEN "final" ELSE "descend")
                       ELSE IF MaybeSymlink(r.errno) THEN "readlink" ELSE "error"
           IN  /\ components' = rest
               /\ AfterSyscall(r)
               /\ trace' = Append(trace, <<"openat", dir, r.fd,
                                            NameOpenFlags(CurFlags(rest, final_flags))>>)
                           \o (IF r.kind = "ok" /\ Has("NO_XDEV")
                               THEN << <<"fstat", r.fd, NoIno>> >> ELSE <<>>)
                           \o (CASE kind = "xdev" ->
                                        Closes(<<r.fd>>) \o Closes(Owned(curdir, parents))
                                  [] kind \in {"descend", "readlink"} -> <<>>
                                  [] OTHER -> Closes(Owned(curdir, parents)))
               /\ met_symlink' = (met_symlink \/
                                    (/\ IType(Lookup(dirents, dir, name)) = "symlink"
                                     /\ r.kind = "err" /\ r.errno \in {"ELOOP", "ENOTDIR"}))
               /\ CASE kind = "xdev"  -> /\ WalkReturn(Err("EXDEV"))
                                         /\ UNCHANGED <<curdir, parents, fname, open_errno>>
                    [] kind = "descend" ->
                           /\ parents' = OpenRsPush(parents, curdir)
                           /\ curdir' = r.fd
                           /\ pc' = "loop"
                           /\ UNCHANGED <<fname, open_errno, retVars>>
                    [] kind = "readlink" ->
                           /\ fname' = name
                           /\ open_errno' = r.errno
                           /\ pc' = "readlink"
                           /\ UNCHANGED <<curdir, parents, retVars>>
                    [] OTHER -> /\ WalkReturn(r)
                                /\ UNCHANGED <<curdir, parents, fname, open_errno>>
    /\ UNCHANGED <<callVars, howVars, argVars, root_dev, n_symlinks_found, n_symlinks_max,
                   sysconf_ret, expanded, via, inner_name, listing>>

\* open.rs lines 178-227: readlinkat on the name whose open failed.
OpenRsReadLink ==
    /\ pc = "readlink"
    /\ LET dir == Handle(curdir)
           rl  == KReadlink(dirents, linkTarget, dir, fname)
       IN  IF rl.kind = "err" THEN
               /\ WalkReturn(Err(ReadlinkFailure(open_errno, rl.errno)))
               /\ trace' = Append(trace, <<"readlinkat", dir, NoIno>>)
                           \o Closes(Owned(curdir, parents))
               /\ UNCHANGED <<n_symlinks_found, final_flags, components, expanded>>
           ELSE IF LimitReached(n_symlinks_found, n_symlinks_max) THEN
               /\ WalkReturn(Err("ELOOP"))
               /\ trace' = Append(trace, <<"readlinkat", dir, NoIno>>)
                           \o Closes(Owned(curdir, parents))
               /\ UNCHANGED <<n_symlinks_found, final_flags, components, expanded>>
           ELSE
               /\ n_symlinks_found' = n_symlinks_found + 1
               /\ final_flags' = FinalFlagsAfterLink(final_flags, components, rl.target)
               /\ components' = SpliceTarget(rl.target, components)
               /\ expanded' = Append(expanded, rl.target)
               /\ pc' = "loop"
               /\ Issue("readlinkat", dir)
               /\ UNCHANGED retVars
    /\ UNCHANGED <<fsVars, callVars, howVars, path, mode, root_dev, n_symlinks_max, sysconf_ret,
                   curdir, parents, fname, open_errno, met_symlink, via, inner_name, listing>>

\* open.rs lines 235-239: the queue is empty and no open returned.
OpenRsEnd ==
    /\ pc = "loop" /\ components = <<>>
    /\ WalkReturn(Ok(Handle(curdir)))
    /\ UNCHANGED <<fsVars, callVars, howVars, argVars, walkVars, via, inner_name, listing>>
    /\ trace' = (IF curdir = NoIno THEN Append(trace, <<"dup", "base", NoIno>>) ELSE trace)
                \o Closes(parents)

\* The fixture with a directory d in a/b, three levels under the root.
OpenRsDirents == BaseDirents \cup { <<"b", N("d"), "newdir">> }

\*   paths:  ""  "/"  "."  ".."  "a"  "c"  "n"  "m"  "k"  "a/.."  "a/../.."  "a/b/d"
\*           "a/b/d/.."  "a/b/d/../.."  "a/b/d/../../.."  "/a/b"  "a/b//a"  "a/b/g"
\*           "a/b/g/a"  "l/d"  "l/d/../../a"  "a/b/d/../../../a/b"  "a/b/d/n"
OpenRsPaths ==
    { <<>>, <<"/">>, <<".">>, <<".", ".">>, <<"a">>, <<"c">>, <<"n">>, <<"m">>, <<"k">>,
      <<"a", "/", ".", ".">>, <<"a", "/", ".", ".", "/", ".", ".">>,
      <<"a", "/", "b", "/", "d">>, <<"a", "/", "b", "/", "d", "/", ".", ".">>,
      <<"a", "/", "b", "/", "d", "/", ".", ".", "/", ".", ".">>,
      <<"a", "/", "b", "/", "d", "/", ".", ".", "/", ".", ".", "/", ".", ".">>,
      <<"/", "a", "/", "b">>, <<"a", "/", "b", "/", "/", "a">>,
      <<"a", "/", "b", "/", "g">>, <<"a", "/", "b", "/", "g", "/", "a">>,
      <<"l", "/", "d">>, <<"l", "/", "d", "/", ".", ".", "/", ".", ".", "/", "a">>,
      <<"a", "/", "b", "/", "d", "/", ".", ".", "/", ".", ".", "/", ".", ".", "/", "a", "/", "b">>,
      <<"a", "/", "b", "/", "d", "/", "n">> }

InitOpenRs ==
    InitCallOn(OpenRsDirents, Inputs(OpenRsPaths), {<<>>}, {"open_file", "sub_dir"},
               SUBSET (AllLookupFlags \ {"ALLOW_PARENT_COMPONENTS"}))

NextOpenRs ==
    \/ CallOpen \/ OpenRsOpenat2 \/ OpenRsInit \/ OpenRsRoot \/ OpenRsParent
    \/ OpenRsName \/ OpenRsReadLink \/ OpenRsEnd

SpecOpenRs == InitOpenRs /\ [][NextOpenRs]_vars

(***************************************************************************)
(* C39: the parent stack of open.rs.                                       *)
(***************************************************************************)

\* The directories strictly between the root of the walk and x, from the
\* top down.
RECURSIVE DirsBetween(_, _)
DirsBetween(d, x) ==
    IF x \in {"base", "root"} \/ KParent(d, x) \in {"base", "root"} THEN <<>>
    ELSE Append(DirsBetween(d, KParent(d, x)), KParent(d, x))

OpenRsWalking == via = "walk" /\ pc \in {"loop", "readlink"}

\* The walk opens a directory and goes on inside it.
OpenRsDescends ==
    /\ pc = "loop" /\ pc' = "loop" /\ components # <<>>
    /\ Head(components) # RootTok /\ Head(components) # ParentTok

\* The walk consumes a "..".
OpenRsGoesUp == pc = "loop" /\ components # <<>> /\ Head(components) = ParentTok

\* C39: when the walk of open.rs descends from the root (curdir is None)
\* the parent stack is empty; the stack holds the handles of the
\* directories strictly between the root and current, from the top down;
\* and a ".." consumed at the root or one level below it leaves the walk at
\* the root with an empty stack.
C39_ParentStack ==
    /\ [](OpenRsWalking => parents = DirsBetween(dirents, Handle(curdir)))
    /\ [][ /\ (OpenRsDescends /\ curdir = NoIno) => parents = <<>>
           /\ (OpenRsGoesUp /\ KParent(dirents, Handle(curdir)) \in {"base", "root"})
                  => (curdir' = NoIno /\ parents' = <<>>) ]_vars

\* "a/b/d/../../..": the walk stood in d with a and b on the stack, went up
\* three times, and returned the root.
C39_Witness ==
    /\ pc = "done" /\ via = "walk"
    /\ opPath = <<"a", "/", "b", "/", "d", "/", ".", ".", "/", ".", ".", "/", ".", ".">>
    /\ \E i \in 1..Len(trace) : trace[i][1] = "openat" /\ trace[i][3] = "newdir"
    /\ curdir = NoIno /\ parents = <<>>
    /\ walk_ret = Ok("base")

(***************************************************************************)
(* util::path_basename                                                     *)
(***************************************************************************)

\* util.rs lines 38-40: a run of trailing separators is cut down to one.
RECURSIVE StripDoubleSlashes(_)
StripDoubleSlashes(bytes) ==
    IF Len(bytes) >= 2 /\ bytes[Len(bytes)] = "/" /\ bytes[Len(bytes) - 1] = "/"
    THEN StripDoubleSlashes(SubSeq(bytes, 1, Len(bytes) - 1))
    ELSE bytes

\* util.rs lines 42-45: one past the last separator among the bytes before
\* the last one, counted from 1.
BasenameStart(bytes) ==
    LET seps == {j \in 1..(Len(bytes) - 1) : bytes[j] = "/"}
    IN  IF seps = {} THEN 1 ELSE (CHOOSE j \in seps : \A k \in seps : k <= j) + 1

BasenameNone     == [kind |-> "None", name |-> <<>>]
BasenameSome(b)  == [kind |-> "Some", name |-> b]
BasenamePanic    == [kind |-> "panic", name |-> <<>>]

\* util::path_basename, lines 29-48.  Path equality compares components,
\* so "//" and "/." are equal to "/".  bytes.len() - 1 of an empty path
\* overflows: a panic where overflow is checked, usize::MAX elsewhere, and
\* then the whole (empty) path is returned.
path_basename(p, overflow_checks) ==
    IF Components(p) = Components(RootTok) \/ EndsWithParent(p) THEN BasenameNone
    ELSE LET bytes == StripDoubleSlashes(p)
         IN  IF bytes = <<>>
             THEN (IF overflow_checks THEN BasenamePanic ELSE BasenameSome(<<>>))
             ELSE BasenameSome(SubSeq(bytes, BasenameStart(bytes), Len(bytes)))

\* The longest path given to path_basename, in bytes.
MaxBasenameLen == 5

RECURSIVE BytesUpTo(_)
BytesUpTo(n) ==
    IF n = 0 THEN {<<>>}
    ELSE BytesUpTo(n - 1)
         \cup {Append(q, c) : q \in {r \in BytesUpTo(n - 1) : Len(r) = n - 1},
                              c \in {"a", "b", ".", "/"}}

InitBasename ==
    InitCallOn(BaseDirents, BytesUpTo(MaxBasenameLen) \X {DefaultTargets}, {<<>>},
               {"path_basename"}, {{}})

\* One call of path_basename on the path.
PathBasename ==
    /\ pc = "call" /\ op = "path_basename"
    /\ \E overflow_checks \in BOOLEAN : result' = path_basename(opPath, overflow_checks)
    /\ pc' = "done"
    /\ UNCHANGED <<fsVars, callVars, howVars, argVars, walkVars, via, walk_ret, subdir, old,
                   inner_name, listing, trace>>

NextBasename == PathBasename

SpecBasename == InitBasename /\ [][NextBasename]_vars

(***************************************************************************)
(* C40: what path_basename returns.                                        *)
(***************************************************************************)

\* The last maximal run of non-separator bytes of p, <<>> when there is none.
LastSegment(p) == IF Segments(p) = <<>> THEN <<>> ELSE Segments(p)[Len(Segments(p))]

\* C40: for a non-empty path, path_basename does not panic; it returns None
\* exactly when the path is made of slashes only or its last component is
\* ".."; otherwise it returns the last component, followed by one "/" if
\* and only if the path ends with a slash.
C40_Basename ==
    (pc = "done" /\ op = "path_basename" /\ opPath # <<>>) =>
        /\ result # BasenamePanic
        /\ result = BasenameNone <=> (Segments(opPath) = <<>> \/ LastSegment(opPath) = ParentTok)
        /\ result # BasenameNone =>
              result = BasenameSome(LastSegment(opPath)
                                    \o (IF EndsWithSlash(opPath) THEN <<"/">> ELSE <<>>))

====
